---------------------------- MODULE Spec2Model ----------------------------
(***************************************************************************)
(* Three course notebooks (module04: matplotlib, module06: geopandas,      *)
(* module10: regression and spatial models), each run cell by cell in its  *)
(* own kernel.  A cell is a sequence of statements; a statement reads      *)
(* names, calls at most one library operation, and binds names.            *)
(***************************************************************************)
EXTENDS Integers, Sequences, FiniteSets, TLC

VARIABLES pc, halted, ns, frames, fs, geo, reg, rd, env

vars == <<pc, halted, ns, frames, fs, geo, reg, rd, env>>

(* ------------------------------ bounds -------------------------------- *)
NLoc == 2          \* locations a point can be at / a polygon can cover
MaxUsa == 1        \* rows of usa-latlong.csv
MaxListings == 2   \* rows of listings.csv
MaxTracts == 3     \* rows of census_tracts_data.geojson
MaxCountyTracts == 4 \* rows of a dataset over more counties
CellAreaM2 == 100000000

Loc == 1..NLoc

Notebooks == {"module04", "module06", "module10"}

Vars ==
  {"Point",
   "W",
   "X",
   "Xc",
   "Y",
   "add_constant",
   "alaska_hawaii_mask",
   "alaska_polygon",
   "albers_usa",
   "ax",
   "ax1",
   "ax2",
   "axes",
   "b",
   "black_income",
   "buffered_points",
   "cal_points",
   "california",
   "california_polygon",
   "cities",
   "cm",
   "col",
   "cols",
   "contiguous_states",
   "contiguous_states_proj",
   "contiguous_usa_points",
   "countdata",
   "counties",
   "county",
   "county_dummies",
   "df",
   "dt",
   "fig",
   "fm",
   "geometry",
   "get_distance",
   "gmc",
   "gpd",
   "great_circle",
   "groups",
   "hawaii_polygon",
   "hourly_share",
   "m",
   "map_height_m",
   "map_width_m",
   "mask",
   "matches",
   "mi",
   "mle",
   "mll",
   "model",
   "new_col",
   "np",
   "ols",
   "olsr",
   "original_crs",
   "p",
   "pd",
   "plt",
   "point0",
   "point1",
   "possible_matches",
   "possible_matches_index",
   "precise_matches",
   "predictors",
   "ps",
   "r",
   "regimes",
   "rents",
   "rents_states",
   "response",
   "result",
   "scatter_plot",
   "se",
   "sindex",
   "sm",
   "sns",
   "states",
   "states2",
   "stats",
   "subregions",
   "texas",
   "tracts",
   "usa_points",
   "utm_11",
   "weekday_hourly_share",
   "weekdays",
   "weekend_hourly_share",
   "weekend_mask",
   "weekends",
   "white_income",
   "xticks",
   "y"}

Cells04 ==
  <<
  [first |-> 26, last |-> 33, stmts |-> <<[line |-> 26, reads |-> {}, writes |-> {"cm"}, op |-> "bind", a |-> "", b |-> "", c |-> ""],
      [line |-> 27, reads |-> {}, writes |-> {"fm"}, op |-> "bind", a |-> "", b |-> "", c |-> ""],
      [line |-> 28, reads |-> {}, writes |-> {"plt"}, op |-> "bind", a |-> "", b |-> "", c |-> ""],
      [line |-> 29, reads |-> {}, writes |-> {"np"}, op |-> "bind", a |-> "", b |-> "", c |-> ""],
      [line |-> 30, reads |-> {}, writes |-> {"pd"}, op |-> "bind", a |-> "", b |-> "", c |-> ""],
      [line |-> 31, reads |-> {}, writes |-> {"sns"}, op |-> "bind", a |-> "", b |-> "", c |-> ""]>>],
  [first |-> 49, last |-> 50, stmts |-> <<[line |-> 50, reads |-> {"plt"}, writes |-> {"ax", "fig"}, op |-> "bind", a |-> "", b |-> "", c |-> ""]>>],
  [first |-> 59, last |-> 60, stmts |-> <<[line |-> 60, reads |-> {"plt"}, writes |-> {"axes", "fig"}, op |-> "bind", a |-> "", b |-> "", c |-> ""]>>],
  [first |-> 83, last |-> 85, stmts |-> <<[line |-> 84, reads |-> {"pd"}, writes |-> {"df"}, op |-> "read_csv", a |-> "df", b |-> "tracts.csv", c |-> ""],
      [line |-> 85, reads |-> {"df"}, writes |-> {}, op |-> "bind", a |-> "", b |-> "", c |-> ""]>>],
  [first |-> 94, last |-> 95, stmts |-> <<[line |-> 95, reads |-> {"df"}, writes |-> {}, op |-> "bind", a |-> "", b |-> "", c |-> ""]>>],
  [first |-> 104, last |-> 106, stmts |-> <<[line |-> 105, reads |-> {"df"}, writes |-> {"cities"}, op |-> "bind", a |-> "", b |-> "", c |-> ""],
      [line |-> 106, reads |-> {"cities"}, writes |-> {}, op |-> "bind", a |-> "", b |-> "", c |-> ""]>>],
  [first |-> 115, last |-> 116, stmts |-> <<[line |-> 116, reads |-> {"cities"}, writes |-> {"ax"}, op |-> "bind", a |-> "", b |-> "", c |-> ""]>>],
  [first |-> 125, last |-> 127, stmts |-> <<[line |-> 126, reads |-> {"plt"}, writes |-> {}, op |-> "bind", a |-> "", b |-> "", c |-> ""],
      [line |-> 127, reads |-> {"plt"}, writes |-> {}, op |-> "bind", a |-> "", b |-> "", c |-> ""]>>],
  [first |-> 136, last |-> 146, stmts |-> <<[line |-> 137, reads |-> {"cities"}, writes |-> {"ax"}, op |-> "bind", a |-> "", b |-> "", c |-> ""],
      [line |-> 140, reads |-> {"ax"}, writes |-> {}, op |-> "bind", a |-> "", b |-> "", c |-> ""],
      [line |-> 141, reads |-> {"ax", "cities"}, writes |-> {}, op |-> "bind", a |-> "", b |-> "", c |-> ""],
      [line |-> 143, reads |-> {"ax"}, writes |-> {}, op |-> "bind", a |-> "", b |-> "", c |-> ""],
      [line |-> 144, reads |-> {"ax"}, writes |-> {}, op |-> "bind", a |-> "", b |-> "", c |-> ""],
      [line |-> 146, reads |-> {"plt"}, writes |-> {}, op |-> "bind", a |-> "", b |-> "", c |-> ""]>>],
  [first |-> 155, last |-> 166, stmts |-> <<[line |-> 156, reads |-> {"plt"}, writes |-> {"ax", "fig"}, op |-> "bind", a |-> "", b |-> "", c |-> ""],
      [line |-> 157, reads |-> {"ax", "cities"}, writes |-> {}, op |-> "bind", a |-> "", b |-> "", c |-> ""],
      [line |-> 160, reads |-> {"ax"}, writes |-> {}, op |-> "bind", a |-> "", b |-> "", c |-> ""],
      [line |-> 161, reads |-> {"ax", "cities"}, writes |-> {}, op |-> "bind", a |-> "", b |-> "", c |-> ""],
      [line |-> 163, reads |-> {"ax"}, writes |-> {}, op |-> "bind", a |-> "", b |-> "", c |-> ""],
      [line |-> 164, reads |-> {"ax"}, writes |-> {}, op |-> "bind", a |-> "", b |-> "", c |-> ""],
      [line |-> 166, reads |-> {"plt"}, writes |-> {}, op |-> "bind", a |-> "", b |-> "", c |-> ""]>>],
  [first |-> 175, last |-> 176, stmts |-> <<>>],
  [first |-> 185, last |-> 197, stmts |-> <<[line |-> 186, reads |-> {"plt"}, writes |-> {"ax", "fig"}, op |-> "bind", a |-> "", b |-> "", c |-> ""],
      [line |-> 187, reads |-> {"ax", "cities", "np"}, writes |-> {}, op |-> "bind", a |-> "", b |-> "", c |-> ""],
      [line |-> 190, reads |-> {"ax"}, writes |-> {}, op |-> "bind", a |-> "", b |-> "", c |-> ""],
      [line |-> 191, reads |-> {"ax"}, writes |-> {}, op |-> "bind", a |-> "", b |-> "", c |-> ""],
      [line |-> 193, reads |-> {"ax", "cities"}, writes |-> {}, op |-> "bind", a |-> "", b |-> "", c |-> ""],
      [line |-> 194, reads |-> {"ax"}, writes |-> {}, op |-> "bind", a |-> "", b |-> "", c |-> ""],
      [line |-> 195, reads |-> {"ax"}, writes |-> {}, op |-> "bind", a |-> "", b |-> "", c |-> ""],
      [line |-> 197, reads |-> {"plt"}, writes |-> {}, op |-> "bind", a |-> "", b |-> "", c |-> ""]>>],
  [first |-> 206, last |-> 207, stmts |-> <<>>],
  [first |-> 223, last |-> 224, stmts |-> <<[line |-> 224, reads |-> {"df"}, writes |-> {"ax"}, op |-> "bind", a |-> "", b |-> "", c |-> ""]>>],
  [first |-> 233, last |-> 242, stmts |-> <<[line |-> 234, reads |-> {"df"}, writes |-> {"ax"}, op |-> "bind", a |-> "", b |-> "", c |-> ""],
      [line |-> 235, reads |-> {"ax"}, writes |-> {}, op |-> "bind", a |-> "", b |-> "", c |-> ""],
      [line |-> 238, reads |-> {"ax"}, writes |-> {}, op |-> "bind", a |-> "", b |-> "", c |-> ""],
      [line |-> 239, reads |-> {"ax"}, writes |-> {}, op |-> "bind", a |-> "", b |-> "", c |-> ""],
      [line |-> 241, reads |-> {"ax"}, writes |-> {}, op |-> "bind", a |-> "", b |-> "", c |-> ""],
      [line |-> 242, reads |-> {"plt"}, writes |-> {}, op |-> "bind", a |-> "", b |-> "", c |-> ""]>>],
  [first |-> 251, last |-> 252, stmts |-> <<[line |-> 252, reads |-> {"df"}, writes |-> {"ax"}, op |-> "bind", a |-> "", b |-> "", c |-> ""]>>],
  [first |-> 261, last |-> 269, stmts |-> <<[line |-> 262, reads |-> {"df"}, writes |-> {"ax"}, op |-> "bind", a |-> "", b |-> "", c |-> ""],
      [line |-> 263, reads |-> {"ax"}, writes |-> {}, op |-> "bind", a |-> "", b |-> "", c |-> ""],
      [line |-> 265, reads |-> {"ax"}, writes |-> {}, op |-> "bind", a |-> "", b |-> "", c |-> ""],
      [line |-> 266, reads |-> {"ax"}, writes |-> {}, op |-> "bind", a |-> "", b |-> "", c |-> ""],
      [line |-> 268, reads |-> {"ax"}, writes |-> {}, op |-> "bind", a |-> "", b |-> "", c |-> ""],
      [line |-> 269, reads |-> {"plt"}, writes |-> {}, op |-> "bind", a |-> "", b |-> "", c |-> ""]>>],
  [first |-> 278, last |-> 288, stmts |-> <<[line |-> 279, reads |-> {"plt"}, writes |-> {"ax", "fig"}, op |-> "bind", a |-> "", b |-> "", c |-> ""],
      [line |-> 280, reads |-> {"ax", "df"}, writes |-> {"ax"}, op |-> "bind", a |-> "", b |-> "", c |-> ""],
      [line |-> 281, reads |-> {"ax", "df"}, writes |-> {"ax"}, op |-> "bind", a |-> "", b |-> "", c |-> ""],
      [line |-> 283, reads |-> {"ax"}, writes |-> {}, op |-> "bind", a |-> "", b |-> "", c |-> ""],
      [line |-> 284, reads |-> {"ax"}, writes |-> {}, op |-> "bind", a |-> "", b |-> "", c |-> ""],
      [line |-> 285, reads |-> {"ax"}, writes |-> {}, op |-> "bind", a |-> "", b |-> "", c |-> ""],
      [line |-> 287, reads |-> {"ax"}, writes |-> {}, op |-> "bind", a |-> "", b |-> "", c |-> ""],
      [line |-> 288, reads |-> {"plt"}, writes |-> {}, op |-> "bind", a |-> "", b |-> "", c |-> ""]>>],
  [first |-> 297, last |-> 310, stmts |-> <<[line |-> 298, reads |-> {}, writes |-> {"cols"}, op |-> "bind", a |-> "", b |-> "", c |-> ""],
      [line |-> 299, reads |-> {"plt"}, writes |-> {"axes", "fig"}, op |-> "bind", a |-> "", b |-> "", c |-> ""],
      [line |-> 302, reads |-> {"axes", "cols", "df"}, writes |-> {"ax", "col"}, op |-> "bind", a |-> "", b |-> "", c |-> ""],
      [line |-> 309, reads |-> {"fig"}, writes |-> {}, op |-> "bind", a |-> "", b |-> "", c |-> ""],
      [line |-> 310, reads |-> {"plt"}, writes |-> {}, op |-> "bind", a |-> "", b |-> "", c |-> ""]>>],
  [first |-> 319, last |-> 320, stmts |-> <<>>],
  [first |-> 329, last |-> 347, stmts |-> <<[line |-> 331, reads |-> {"df"}, writes |-> {"white_income"}, op |-> "bind", a |-> "", b |-> "", c |-> ""],
      [line |-> 332, reads |-> {"white_income"}, writes |-> {"ax"}, op |-> "bind", a |-> "", b |-> "", c |-> ""],
      [line |-> 335, reads |-> {"df"}, writes |-> {"black_income"}, op |-> "bind", a |-> "", b |-> "", c |-> ""],
      [line |-> 336, reads |-> {"black_income"}, writes |-> {"ax"}, op |-> "bind", a |-> "", b |-> "", c |-> ""],
      [line |-> 338, reads |-> {"ax"}, writes |-> {}, op |-> "bind", a |-> "", b |-> "", c |-> ""],
      [line |-> 339, reads |-> {"ax"}, writes |-> {}, op |-> "bind", a |-> "", b |-> "", c |-> ""],
      [line |-> 340, reads |-> {"ax"}, writes |-> {}, op |-> "bind", a |-> "", b |-> "", c |-> ""],
      [line |-> 342, reads |-> {"ax"}, writes |-> {}, op |-> "bind", a |-> "", b |-> "", c |-> ""],
      [line |-> 343, reads |-> {"ax"}, writes |-> {}, op |-> "bind", a |-> "", b |-> "", c |-> ""],
      [line |-> 344, reads |-> {"ax"}, writes |-> {}, op |-> "bind", a |-> "", b |-> "", c |-> ""],
      [line |-> 346, reads |-> {"ax"}, writes |-> {}, op |-> "bind", a |-> "", b |-> "", c |-> ""],
      [line |-> 347, reads |-> {"plt"}, writes |-> {}, op |-> "bind", a |-> "", b |-> "", c |-> ""]>>],
  [first |-> 356, last |-> 357, stmts |-> <<>>],
  [first |-> 373, last |-> 374, stmts |-> <<[line |-> 374, reads |-> {"pd"}, writes |-> {"dt"}, op |-> "read_csv", a |-> "dt", b |-> "gps-coords.csv", c |-> ""]>>],
  [first |-> 383, last |-> 391, stmts |-> <<[line |-> 384, reads |-> {"dt"}, writes |-> {"weekend_mask"}, op |-> "bind", a |-> "", b |-> "", c |-> ""],
      [line |-> 385, reads |-> {"dt", "weekend_mask"}, writes |-> {"weekends"}, op |-> "bind", a |-> "", b |-> "", c |-> ""],
      [line |-> 386, reads |-> {"dt", "weekend_mask"}, writes |-> {"weekdays"}, op |-> "bind", a |-> "", b |-> "", c |-> ""],
      [line |-> 387, reads |-> {"weekdays"}, writes |-> {"weekday_hourly_share"}, op |-> "bind", a |-> "", b |-> "", c |-> ""],
      [line |-> 388, reads |-> {"weekends"}, writes |-> {"weekend_hourly_share"}, op |-> "bind", a |-> "", b |-> "", c |-> ""],
      [line |-> 389, reads |-> {"pd", "weekday_hourly_share", "weekend_hourly_share"}, writes |-> {"hourly_share"}, op |-> "bind", a |-> "", b |-> "", c |-> ""],
      [line |-> 390, reads |-> {"hourly_share"}, writes |-> {}, op |-> "bind", a |-> "", b |-> "", c |-> ""],
      [line |-> 391, reads |-> {"hourly_share"}, writes |-> {}, op |-> "bind", a |-> "", b |-> "", c |-> ""]>>],
  [first |-> 400, last |-> 402, stmts |-> <<[line |-> 401, reads |-> {"hourly_share"}, writes |-> {"ax"}, op |-> "bind", a |-> "", b |-> "", c |-> ""]>>],
  [first |-> 411, last |-> 413, stmts |-> <<[line |-> 412, reads |-> {"hourly_share"}, writes |-> {"ax"}, op |-> "bind", a |-> "", b |-> "", c |-> ""]>>],
  [first |-> 422, last |-> 429, stmts |-> <<[line |-> 422, reads |-> {"hourly_share"}, writes |-> {"ax"}, op |-> "bind", a |-> "", b |-> "", c |-> ""],
      [line |-> 425, reads |-> {"ax"}, writes |-> {}, op |-> "bind", a |-> "", b |-> "", c |-> ""],
      [line |-> 426, reads |-> {"ax", "hourly_share"}, writes |-> {}, op |-> "bind", a |-> "", b |-> "", c |-> ""],
      [line |-> 427, reads |-> {"ax"}, writes |-> {}, op |-> "bind", a |-> "", b |-> "", c |-> ""],
      [line |-> 429, reads |-> {"plt"}, writes |-> {}, op |-> "bind", a |-> "", b |-> "", c |-> ""]>>],
  [first |-> 438, last |-> 440, stmts |-> <<[line |-> 439, reads |-> {"dt"}, writes |-> {"countdata"}, op |-> "bind", a |-> "", b |-> "", c |-> ""],
      [line |-> 440, reads |-> {"countdata"}, writes |-> {}, op |-> "bind", a |-> "", b |-> "", c |-> ""]>>],
  [first |-> 449, last |-> 450, stmts |-> <<[line |-> 450, reads |-> {"countdata"}, writes |-> {"ax"}, op |-> "bind", a |-> "", b |-> "", c |-> ""]>>],
  [first |-> 459, last |-> 468, stmts |-> <<[line |-> 460, reads |-> {"countdata"}, writes |-> {"ax"}, op |-> "bind", a |-> "", b |-> "", c |-> ""],
      [line |-> 464, reads |-> {"dt", "np"}, writes |-> {"xticks"}, op |-> "bind", a |-> "", b |-> "", c |-> ""],
      [line |-> 465, reads |-> {"plt", "xticks"}, writes |-> {}, op |-> "bind", a |-> "", b |-> "", c |-> ""],
      [line |-> 467, reads |-> {"ax"}, writes |-> {}, op |-> "bind", a |-> "", b |-> "", c |-> ""],
      [line |-> 468, reads |-> {"plt"}, writes |-> {}, op |-> "bind", a |-> "", b |-> "", c |-> ""]>>],
  [first |-> 477, last |-> 478, stmts |-> <<>>],
  [first |-> 494, last |-> 498, stmts |-> <<[line |-> 494, reads |-> {"plt"}, writes |-> {"ax", "fig"}, op |-> "bind", a |-> "", b |-> "", c |-> ""],
      [line |-> 495, reads |-> {"ax", "df"}, writes |-> {}, op |-> "bind", a |-> "", b |-> "", c |-> ""],
      [line |-> 496, reads |-> {"ax"}, writes |-> {}, op |-> "bind", a |-> "", b |-> "", c |-> ""],
      [line |-> 497, reads |-> {"ax"}, writes |-> {}, op |-> "bind", a |-> "", b |-> "", c |-> ""],
      [line |-> 498, reads |-> {"plt"}, writes |-> {}, op |-> "bind", a |-> "", b |-> "", c |-> ""]>>],
  [first |-> 507, last |-> 512, stmts |-> <<[line |-> 507, reads |-> {}, writes |-> {"scatter_plot"}, op |-> "bind", a |-> "", b |-> "", c |-> ""]>>],
  [first |-> 521, last |-> 522, stmts |-> <<[line |-> 522, reads |-> {"df", "plt", "scatter_plot"}, writes |-> {}, op |-> "bind", a |-> "", b |-> "", c |-> ""]>>],
  [first |-> 531, last |-> 532, stmts |-> <<[line |-> 532, reads |-> {"df", "plt", "scatter_plot"}, writes |-> {}, op |-> "bind", a |-> "", b |-> "", c |-> ""]>>],
  [first |-> 541, last |-> 561, stmts |-> <<[line |-> 542, reads |-> {"plt"}, writes |-> {"ax", "fig"}, op |-> "bind", a |-> "", b |-> "", c |-> ""],
      [line |-> 545, reads |-> {"df"}, writes |-> {"mask"}, op |-> "bind", a |-> "", b |-> "", c |-> ""],
      [line |-> 546, reads |-> {"ax", "df", "mask"}, writes |-> {}, op |-> "bind", a |-> "", b |-> "", c |-> ""],
      [line |-> 548, reads |-> {"ax", "df", "mask"}, writes |-> {}, op |-> "bind", a |-> "", b |-> "", c |-> ""],
      [line |-> 552, reads |-> {"ax"}, writes |-> {}, op |-> "bind", a |-> "", b |-> "", c |-> ""],
      [line |-> 553, reads |-> {"ax"}, writes |-> {}, op |-> "bind", a |-> "", b |-> "", c |-> ""],
      [line |-> 556, reads |-> {"ax"}, writes |-> {}, op |-> "bind", a |-> "", b |-> "", c |-> ""],
      [line |-> 557, reads |-> {"ax"}, writes |-> {}, op |-> "bind", a |-> "", b |-> "", c |-> ""],
      [line |-> 560, reads |-> {"ax"}, writes |-> {}, op |-> "bind", a |-> "", b |-> "", c |-> ""],
      [line |-> 561, reads |-> {"plt"}, writes |-> {}, op |-> "bind", a |-> "", b |-> "", c |-> ""]>>],
  [first |-> 570, last |-> 571, stmts |-> <<>>],
  [first |-> 593, last |-> 593, stmts |-> <<>>]
  >>

Cells06 ==
  <<
  [first |-> 27, last |-> 33, stmts |-> <<[line |-> 27, reads |-> {}, writes |-> {"pd"}, op |-> "bind", a |-> "", b |-> "", c |-> ""],
      [line |-> 28, reads |-> {}, writes |-> {"gpd"}, op |-> "bind", a |-> "", b |-> "", c |-> ""],
      [line |-> 29, reads |-> {}, writes |-> {"plt"}, op |-> "bind", a |-> "", b |-> "", c |-> ""],
      [line |-> 30, reads |-> {}, writes |-> {"great_circle"}, op |-> "bind", a |-> "", b |-> "", c |-> ""],
      [line |-> 31, reads |-> {}, writes |-> {"Point"}, op |-> "bind", a |-> "", b |-> "", c |-> ""]>>],
  [first |-> 96, last |-> 97, stmts |-> <<[line |-> 97, reads |-> {"pd"}, writes |-> {"df"}, op |-> "read_csv", a |-> "df", b |-> "usa-latlong.csv", c |-> ""]>>],
  [first |-> 106, last |-> 108, stmts |-> <<[line |-> 107, reads |-> {"df", "gpd"}, writes |-> {"usa_points"}, op |-> "frame", a |-> "usa_points", b |-> "df", c |-> ""],
      [line |-> 108, reads |-> {"usa_points"}, writes |-> {}, op |-> "bind", a |-> "", b |-> "", c |-> ""]>>],
  [first |-> 119, last |-> 123, stmts |-> <<[line |-> 121, reads |-> {"usa_points"}, writes |-> {"point0"}, op |-> "bind", a |-> "", b |-> "", c |-> ""],
      [line |-> 122, reads |-> {"usa_points"}, writes |-> {"point1"}, op |-> "bind", a |-> "", b |-> "", c |-> ""],
      [line |-> 123, reads |-> {"great_circle", "point0", "point1"}, writes |-> {}, op |-> "bind", a |-> "", b |-> "", c |-> ""]>>],
  [first |-> 134, last |-> 141, stmts |-> <<[line |-> 135, reads |-> {}, writes |-> {"get_distance"}, op |-> "bind", a |-> "", b |-> "", c |-> ""],
      [line |-> 140, reads |-> {"get_distance", "great_circle", "usa_points"}, writes |-> {}, op |-> "setcol", a |-> "usa_points", b |-> "miles_from_snell", c |-> ""],
      [line |-> 141, reads |-> {"usa_points"}, writes |-> {}, op |-> "bind", a |-> "", b |-> "", c |-> ""]>>],
  [first |-> 150, last |-> 153, stmts |-> <<>>],
  [first |-> 164, last |-> 166, stmts |-> <<[line |-> 165, reads |-> {"gpd"}, writes |-> {"states"}, op |-> "read_file", a |-> "states", b |-> "states.shp", c |-> ""],
      [line |-> 166, reads |-> {"states"}, writes |-> {}, op |-> "bind", a |-> "", b |-> "", c |-> ""]>>],
  [first |-> 175, last |-> 175, stmts |-> <<[line |-> 175, reads |-> {"states"}, writes |-> {}, op |-> "bind", a |-> "", b |-> "", c |-> ""]>>],
  [first |-> 186, last |-> 187, stmts |-> <<[line |-> 187, reads |-> {"states"}, writes |-> {}, op |-> "bind", a |-> "", b |-> "", c |-> ""]>>],
  [first |-> 196, last |-> 198, stmts |-> <<[line |-> 197, reads |-> {"gpd"}, writes |-> {"states2"}, op |-> "read_csv", a |-> "states2", b |-> "states.geojson", c |-> ""],
      [line |-> 198, reads |-> {"states2"}, writes |-> {}, op |-> "bind", a |-> "", b |-> "", c |-> ""]>>],
  [first |-> 207, last |-> 209, stmts |-> <<[line |-> 208, reads |-> {"states2"}, writes |-> {}, op |-> "setcol", a |-> "states2", b |-> "STATE_NAME", c |-> ""],
      [line |-> 209, reads |-> {"states2"}, writes |-> {}, op |-> "tofile", a |-> "states2", b |-> "states2", c |-> ""]>>],
  [first |-> 218, last |-> 219, stmts |-> <<>>],
  [first |-> 235, last |-> 238, stmts |-> <<[line |-> 237, reads |-> {"Point", "usa_points"}, writes |-> {}, op |-> "setcol", a |-> "usa_points", b |-> "geometry", c |-> ""],
      [line |-> 238, reads |-> {"usa_points"}, writes |-> {}, op |-> "bind", a |-> "", b |-> "", c |-> ""]>>],
  [first |-> 256, last |-> 259, stmts |-> <<[line |-> 258, reads |-> {"states", "usa_points"}, writes |-> {"mask"}, op |-> "intersects", a |-> "mask", b |-> "states", c |-> ""],
      [line |-> 259, reads |-> {"mask", "states"}, writes |-> {}, op |-> "bind", a |-> "", b |-> "", c |-> ""]>>],
  [first |-> 270, last |-> 271, stmts |-> <<[line |-> 271, reads |-> {"mask", "states"}, writes |-> {}, op |-> "bind", a |-> "", b |-> "", c |-> ""]>>],
  [first |-> 289, last |-> 294, stmts |-> <<[line |-> 290, reads |-> {"states"}, writes |-> {"california"}, op |-> "select", a |-> "california", b |-> "states", c |-> "California"],
      [line |-> 293, reads |-> {"california"}, writes |-> {"california_polygon"}, op |-> "iloc0", a |-> "california_polygon", b |-> "california", c |-> ""],
      [line |-> 294, reads |-> {"california_polygon"}, writes |-> {}, op |-> "bind", a |-> "", b |-> "", c |-> ""]>>],
  [first |-> 303, last |-> 305, stmts |-> <<[line |-> 304, reads |-> {"california_polygon", "usa_points"}, writes |-> {"cal_points"}, op |-> "within", a |-> "cal_points", b |-> "usa_points", c |-> ""],
      [line |-> 305, reads |-> {"cal_points"}, writes |-> {}, op |-> "bind", a |-> "", b |-> "", c |-> ""]>>],
  [first |-> 316, last |-> 320, stmts |-> <<[line |-> 316, reads |-> {"plt"}, writes |-> {"ax", "fig"}, op |-> "bind", a |-> "", b |-> "", c |-> ""],
      [line |-> 317, reads |-> {"ax", "california"}, writes |-> {"ax"}, op |-> "bind", a |-> "", b |-> "", c |-> ""],
      [line |-> 318, reads |-> {"ax", "cal_points"}, writes |-> {"ax"}, op |-> "bind", a |-> "", b |-> "", c |-> ""],
      [line |-> 319, reads |-> {"ax"}, writes |-> {}, op |-> "bind", a |-> "", b |-> "", c |-> ""],
      [line |-> 320, reads |-> {"plt"}, writes |-> {}, op |-> "bind", a |-> "", b |-> "", c |-> ""]>>],
  [first |-> 331, last |-> 339, stmts |-> <<[line |-> 333, reads |-> {"states"}, writes |-> {"alaska_polygon"}, op |-> "polygon", a |-> "alaska_polygon", b |-> "states", c |-> "Alaska"],
      [line |-> 334, reads |-> {"states"}, writes |-> {"hawaii_polygon"}, op |-> "polygon", a |-> "hawaii_polygon", b |-> "states", c |-> "Hawaii"],
      [line |-> 337, reads |-> {"alaska_polygon", "hawaii_polygon", "usa_points"}, writes |-> {"alaska_hawaii_mask"}, op |-> "within2", a |-> "alaska_hawaii_mask", b |-> "usa_points", c |-> ""],
      [line |-> 338, reads |-> {"alaska_hawaii_mask", "usa_points"}, writes |-> {"contiguous_usa_points"}, op |-> "not_mask", a |-> "contiguous_usa_points", b |-> "usa_points", c |-> ""],
      [line |-> 339, reads |-> {"contiguous_usa_points"}, writes |-> {}, op |-> "bind", a |-> "", b |-> "", c |-> ""]>>],
  [first |-> 348, last |-> 350, stmts |-> <<>>],
  [first |-> 366, last |-> 367, stmts |-> <<[line |-> 366, reads |-> {"states"}, writes |-> {"mask"}, op |-> "contiguous", a |-> "mask", b |-> "states", c |-> ""],
      [line |-> 367, reads |-> {"mask", "states"}, writes |-> {"contiguous_states"}, op |-> "by_mask", a |-> "contiguous_states", b |-> "states", c |-> ""]>>],
  [first |-> 376, last |-> 377, stmts |-> <<[line |-> 376, reads |-> {"contiguous_states"}, writes |-> {"subregions"}, op |-> "dissolve", a |-> "subregions", b |-> "contiguous_states", c |-> ""],
      [line |-> 377, reads |-> {"subregions"}, writes |-> {"ax"}, op |-> "bind", a |-> "", b |-> "", c |-> ""]>>],
  [first |-> 393, last |-> 395, stmts |-> <<[line |-> 393, reads |-> {"states"}, writes |-> {"texas"}, op |-> "select", a |-> "texas", b |-> "states", c |-> "Texas"],
      [line |-> 394, reads |-> {"texas"}, writes |-> {"ax"}, op |-> "bind", a |-> "", b |-> "", c |-> ""],
      [line |-> 395, reads |-> {"ax", "texas"}, writes |-> {"ax"}, op |-> "bind", a |-> "", b |-> "", c |-> ""]>>],
  [first |-> 404, last |-> 406, stmts |-> <<[line |-> 404, reads |-> {"texas"}, writes |-> {"ax"}, op |-> "bind", a |-> "", b |-> "", c |-> ""],
      [line |-> 405, reads |-> {"ax", "texas"}, writes |-> {"ax"}, op |-> "bind", a |-> "", b |-> "", c |-> ""],
      [line |-> 406, reads |-> {"ax", "texas"}, writes |-> {"ax"}, op |-> "bind", a |-> "", b |-> "", c |-> ""]>>],
  [first |-> 415, last |-> 418, stmts |-> <<[line |-> 415, reads |-> {"texas"}, writes |-> {"ax"}, op |-> "bind", a |-> "", b |-> "", c |-> ""],
      [line |-> 416, reads |-> {"ax", "texas"}, writes |-> {"ax"}, op |-> "bind", a |-> "", b |-> "", c |-> ""],
      [line |-> 417, reads |-> {"ax", "texas"}, writes |-> {"ax"}, op |-> "bind", a |-> "", b |-> "", c |-> ""],
      [line |-> 418, reads |-> {"ax", "texas"}, writes |-> {"ax"}, op |-> "bind", a |-> "", b |-> "", c |-> ""]>>],
  [first |-> 427, last |-> 428, stmts |-> <<[line |-> 427, reads |-> {"contiguous_states"}, writes |-> {"ax"}, op |-> "bind", a |-> "", b |-> "", c |-> ""],
      [line |-> 428, reads |-> {"ax", "contiguous_states"}, writes |-> {"ax"}, op |-> "bind", a |-> "", b |-> "", c |-> ""]>>],
  [first |-> 437, last |-> 440, stmts |-> <<>>],
  [first |-> 458, last |-> 459, stmts |-> <<[line |-> 459, reads |-> {"california_polygon"}, writes |-> {}, op |-> "buffer", a |-> "", b |-> "california_polygon", c |-> ""]>>],
  [first |-> 468, last |-> 469, stmts |-> <<[line |-> 468, reads |-> {"cal_points"}, writes |-> {"buffered_points"}, op |-> "buffer", a |-> "buffered_points", b |-> "cal_points", c |-> ""],
      [line |-> 469, reads |-> {"buffered_points", "california"}, writes |-> {"ax"}, op |-> "bind", a |-> "", b |-> "", c |-> ""]>>],
  [first |-> 478, last |-> 479, stmts |-> <<>>],
  [first |-> 488, last |-> 488, stmts |-> <<[line |-> 488, reads |-> {"buffered_points", "california"}, writes |-> {"ax"}, op |-> "bind", a |-> "", b |-> "", c |-> ""]>>],
  [first |-> 520, last |-> 524, stmts |-> <<[line |-> 522, reads |-> {}, writes |-> {"original_crs"}, op |-> "original_crs", a |-> "original_crs", b |-> "", c |-> ""],
      [line |-> 523, reads |-> {"cal_points", "original_crs"}, writes |-> {}, op |-> "setcrs", a |-> "cal_points", b |-> "original_crs", c |-> ""],
      [line |-> 524, reads |-> {"cal_points"}, writes |-> {}, op |-> "bind", a |-> "", b |-> "", c |-> ""]>>],
  [first |-> 533, last |-> 533, stmts |-> <<[line |-> 533, reads |-> {"california"}, writes |-> {}, op |-> "bind", a |-> "", b |-> "", c |-> ""]>>],
  [first |-> 542, last |-> 542, stmts |-> <<[line |-> 542, reads |-> {"california"}, writes |-> {"ax"}, op |-> "bind", a |-> "", b |-> "", c |-> ""]>>],
  [first |-> 551, last |-> 553, stmts |-> <<[line |-> 553, reads |-> {}, writes |-> {"utm_11"}, op |-> "utm_11", a |-> "utm_11", b |-> "", c |-> ""]>>],
  [first |-> 562, last |-> 564, stmts |-> <<[line |-> 563, reads |-> {"california", "utm_11"}, writes |-> {"california"}, op |-> "tocrs", a |-> "california", b |-> "california", c |-> "utm_11"],
      [line |-> 564, reads |-> {"california"}, writes |-> {"ax"}, op |-> "bind", a |-> "", b |-> "", c |-> ""]>>],
  [first |-> 582, last |-> 585, stmts |-> <<[line |-> 583, reads |-> {"cal_points", "utm_11"}, writes |-> {"cal_points"}, op |-> "tocrs", a |-> "cal_points", b |-> "cal_points", c |-> "utm_11"],
      [line |-> 584, reads |-> {"california"}, writes |-> {"ax"}, op |-> "bind", a |-> "", b |-> "", c |-> ""],
      [line |-> 585, reads |-> {"ax", "cal_points"}, writes |-> {"ax"}, op |-> "buffer", a |-> "", b |-> "cal_points", c |-> ""]>>],
  [first |-> 601, last |-> 604, stmts |-> <<>>],
  [first |-> 622, last |-> 624, stmts |-> <<[line |-> 623, reads |-> {"original_crs", "usa_points"}, writes |-> {}, op |-> "setcrs", a |-> "usa_points", b |-> "original_crs", c |-> ""],
      [line |-> 624, reads |-> {"usa_points"}, writes |-> {}, op |-> "bind", a |-> "", b |-> "", c |-> ""]>>],
  [first |-> 635, last |-> 637, stmts |-> <<[line |-> 636, reads |-> {}, writes |-> {"map_width_m"}, op |-> "bind", a |-> "", b |-> "", c |-> ""],
      [line |-> 637, reads |-> {}, writes |-> {"map_height_m"}, op |-> "bind", a |-> "", b |-> "", c |-> ""]>>],
  [first |-> 648, last |-> 658, stmts |-> <<[line |-> 649, reads |-> {"map_height_m", "map_width_m"}, writes |-> {"albers_usa"}, op |-> "albers_usa", a |-> "albers_usa", b |-> "", c |-> ""]>>],
  [first |-> 669, last |-> 671, stmts |-> <<[line |-> 671, reads |-> {"albers_usa", "usa_points"}, writes |-> {}, op |-> "tocrs", a |-> "", b |-> "usa_points", c |-> "albers_usa"]>>],
  [first |-> 682, last |-> 689, stmts |-> <<[line |-> 682, reads |-> {"plt"}, writes |-> {"axes", "fig"}, op |-> "bind", a |-> "", b |-> "", c |-> ""],
      [line |-> 683, reads |-> {"axes"}, writes |-> {"ax1"}, op |-> "bind", a |-> "", b |-> "", c |-> ""],
      [line |-> 684, reads |-> {"ax1", "contiguous_states"}, writes |-> {"ax1"}, op |-> "bind", a |-> "", b |-> "", c |-> ""],
      [line |-> 686, reads |-> {"axes"}, writes |-> {"ax2"}, op |-> "bind", a |-> "", b |-> "", c |-> ""],
      [line |-> 687, reads |-> {"albers_usa", "ax2", "contiguous_states"}, writes |-> {}, op |-> "tocrs", a |-> "", b |-> "contiguous_states", c |-> "albers_usa"],
      [line |-> 689, reads |-> {"plt"}, writes |-> {}, op |-> "bind", a |-> "", b |-> "", c |-> ""]>>],
  [first |-> 705, last |-> 707, stmts |-> <<[line |-> 705, reads |-> {"contiguous_states"}, writes |-> {"contiguous_states"}, op |-> "copy", a |-> "contiguous_states", b |-> "contiguous_states", c |-> ""],
      [line |-> 706, reads |-> {"contiguous_states"}, writes |-> {}, op |-> "area", a |-> "contiguous_states", b |-> "", c |-> ""],
      [line |-> 707, reads |-> {"contiguous_states"}, writes |-> {}, op |-> "bind", a |-> "", b |-> "", c |-> ""]>>],
  [first |-> 716, last |-> 718, stmts |-> <<[line |-> 716, reads |-> {"albers_usa", "contiguous_states"}, writes |-> {"contiguous_states_proj"}, op |-> "tocrs", a |-> "contiguous_states_proj", b |-> "contiguous_states", c |-> "albers_usa"],
      [line |-> 717, reads |-> {"contiguous_states_proj"}, writes |-> {}, op |-> "area_sqkm", a |-> "contiguous_states_proj", b |-> "", c |-> ""],
      [line |-> 718, reads |-> {"contiguous_states_proj"}, writes |-> {}, op |-> "bind", a |-> "", b |-> "", c |-> ""]>>],
  [first |-> 727, last |-> 729, stmts |-> <<>>],
  [first |-> 745, last |-> 746, stmts |-> <<[line |-> 745, reads |-> {"contiguous_states_proj"}, writes |-> {"ax"}, op |-> "bind", a |-> "", b |-> "", c |-> ""]>>],
  [first |-> 755, last |-> 760, stmts |-> <<[line |-> 755, reads |-> {"plt"}, writes |-> {"ax", "fig"}, op |-> "bind", a |-> "", b |-> "", c |-> ""],
      [line |-> 756, reads |-> {"ax", "contiguous_states_proj"}, writes |-> {"ax"}, op |-> "bind", a |-> "", b |-> "", c |-> ""],
      [line |-> 758, reads |-> {"ax"}, writes |-> {}, op |-> "bind", a |-> "", b |-> "", c |-> ""],
      [line |-> 759, reads |-> {"fig"}, writes |-> {}, op |-> "savefig", a |-> "fig", b |-> "map.png", c |-> ""],
      [line |-> 760, reads |-> {"plt"}, writes |-> {}, op |-> "bind", a |-> "", b |-> "", c |-> ""]>>],
  [first |-> 778, last |-> 779, stmts |-> <<[line |-> 778, reads |-> {"pd"}, writes |-> {"rents"}, op |-> "read_csv", a |-> "rents", b |-> "listings.csv", c |-> ""],
      [line |-> 779, reads |-> {"rents"}, writes |-> {}, op |-> "bind", a |-> "", b |-> "", c |-> ""]>>],
  [first |-> 788, last |-> 791, stmts |-> <<[line |-> 788, reads |-> {"gpd", "rents"}, writes |-> {"rents"}, op |-> "frame", a |-> "rents", b |-> "rents", c |-> ""],
      [line |-> 789, reads |-> {"Point", "rents"}, writes |-> {}, op |-> "setcol", a |-> "rents", b |-> "geometry", c |-> ""],
      [line |-> 790, reads |-> {"original_crs", "rents"}, writes |-> {}, op |-> "setcrs", a |-> "rents", b |-> "original_crs", c |-> ""],
      [line |-> 791, reads |-> {"rents"}, writes |-> {}, op |-> "bind", a |-> "", b |-> "", c |-> ""]>>],
  [first |-> 800, last |-> 800, stmts |-> <<[line |-> 800, reads |-> {"contiguous_states", "rents"}, writes |-> {}, op |-> "bind", a |-> "", b |-> "", c |-> ""]>>],
  [first |-> 809, last |-> 809, stmts |-> <<[line |-> 809, reads |-> {"contiguous_states", "rents"}, writes |-> {"rents"}, op |-> "tocrs", a |-> "rents", b |-> "rents", c |-> "contiguous_states"]>>],
  [first |-> 818, last |-> 818, stmts |-> <<[line |-> 818, reads |-> {"contiguous_states", "gpd", "rents"}, writes |-> {"rents_states"}, op |-> "sjoin", a |-> "rents_states", b |-> "rents", c |-> "contiguous_states"]>>],
  [first |-> 827, last |-> 827, stmts |-> <<[line |-> 827, reads |-> {"rents_states"}, writes |-> {"groups"}, op |-> "bind", a |-> "", b |-> "", c |-> ""]>>],
  [first |-> 836, last |-> 837, stmts |-> <<[line |-> 837, reads |-> {"groups"}, writes |-> {}, op |-> "bind", a |-> "", b |-> "", c |-> ""]>>],
  [first |-> 846, last |-> 847, stmts |-> <<[line |-> 847, reads |-> {"groups"}, writes |-> {}, op |-> "bind", a |-> "", b |-> "", c |-> ""]>>],
  [first |-> 863, last |-> 864, stmts |-> <<[line |-> 863, reads |-> {"states"}, writes |-> {"geometry"}, op |-> "polygon", a |-> "geometry", b |-> "states", c |-> "Massachusetts"],
      [line |-> 864, reads |-> {"geometry"}, writes |-> {}, op |-> "bind", a |-> "", b |-> "", c |-> ""]>>],
  [first |-> 873, last |-> 874, stmts |-> <<[line |-> 874, reads |-> {"geometry", "rents"}, writes |-> {"matches"}, op |-> "bind", a |-> "", b |-> "", c |-> ""]>>],
  [first |-> 883, last |-> 883, stmts |-> <<[line |-> 883, reads |-> {"rents"}, writes |-> {"sindex"}, op |-> "bind", a |-> "", b |-> "", c |-> ""]>>],
  [first |-> 892, last |-> 895, stmts |-> <<[line |-> 893, reads |-> {"geometry", "sindex"}, writes |-> {"possible_matches_index"}, op |-> "bind", a |-> "", b |-> "", c |-> ""],
      [line |-> 894, reads |-> {"possible_matches_index", "rents"}, writes |-> {"possible_matches"}, op |-> "bind", a |-> "", b |-> "", c |-> ""],
      [line |-> 895, reads |-> {"geometry", "possible_matches"}, writes |-> {"precise_matches"}, op |-> "bind", a |-> "", b |-> "", c |-> ""]>>],
  [first |-> 919, last |-> 919, stmts |-> <<>>]
  >>

Cells10 ==
  <<
  [first |-> 637, last |-> 643, stmts |-> <<[line |-> 637, reads |-> {}, writes |-> {"gpd"}, op |-> "bind", a |-> "", b |-> "", c |-> ""],
      [line |-> 638, reads |-> {}, writes |-> {"ps"}, op |-> "bind", a |-> "", b |-> "", c |-> ""],
      [line |-> 639, reads |-> {}, writes |-> {"sm"}, op |-> "bind", a |-> "", b |-> "", c |-> ""],
      [line |-> 640, reads |-> {}, writes |-> {"stats"}, op |-> "bind", a |-> "", b |-> "", c |-> ""],
      [line |-> 641, reads |-> {}, writes |-> {"add_constant"}, op |-> "bind", a |-> "", b |-> "", c |-> ""]>>],
  [first |-> 652, last |-> 654, stmts |-> <<[line |-> 653, reads |-> {"gpd"}, writes |-> {"tracts"}, op |-> "read_file", a |-> "tracts", b |-> "census_tracts_data.geojson", c |-> ""],
      [line |-> 654, reads |-> {"tracts"}, writes |-> {}, op |-> "bind", a |-> "", b |-> "", c |-> ""]>>],
  [first |-> 663, last |-> 665, stmts |-> <<[line |-> 664, reads |-> {}, writes |-> {"response"}, op |-> "bind", a |-> "", b |-> "", c |-> ""],
      [line |-> 665, reads |-> {"response", "tracts"}, writes |-> {"tracts"}, op |-> "dropna_subset", a |-> "tracts", b |-> "tracts", c |-> ""]>>],
  [first |-> 674, last |-> 675, stmts |-> <<[line |-> 675, reads |-> {"response", "tracts"}, writes |-> {}, op |-> "bind", a |-> "", b |-> "", c |-> ""]>>],
  [first |-> 684, last |-> 684, stmts |-> <<[line |-> 684, reads |-> {"tracts"}, writes |-> {}, op |-> "bind", a |-> "", b |-> "", c |-> ""]>>],
  [first |-> 709, last |-> 712, stmts |-> <<[line |-> 710, reads |-> {}, writes |-> {"predictors"}, op |-> "predictors", a |-> "predictors", b |-> "", c |-> ""],
      [line |-> 711, reads |-> {"predictors", "tracts"}, writes |-> {"X"}, op |-> "design", a |-> "X", b |-> "tracts", c |-> ""],
      [line |-> 712, reads |-> {"X", "response", "tracts"}, writes |-> {"y"}, op |-> "loc_response", a |-> "y", b |-> "tracts", c |-> ""]>>],
  [first |-> 721, last |-> 723, stmts |-> <<[line |-> 722, reads |-> {"X", "stats", "y"}, writes |-> {"b", "m", "p", "r", "se"}, op |-> "fit", a |-> "m", b |-> "X", c |-> ""],
      [line |-> 723, reads |-> {"b", "m", "p", "r"}, writes |-> {}, op |-> "bind", a |-> "", b |-> "", c |-> ""]>>],
  [first |-> 732, last |-> 736, stmts |-> <<[line |-> 733, reads |-> {"X", "add_constant"}, writes |-> {"Xc"}, op |-> "bind", a |-> "", b |-> "", c |-> ""],
      [line |-> 734, reads |-> {"Xc", "sm", "y"}, writes |-> {"model"}, op |-> "bind", a |-> "", b |-> "", c |-> ""],
      [line |-> 735, reads |-> {"model"}, writes |-> {"result"}, op |-> "fit", a |-> "result", b |-> "model", c |-> ""],
      [line |-> 736, reads |-> {"result"}, writes |-> {}, op |-> "bind", a |-> "", b |-> "", c |-> ""]>>],
  [first |-> 756, last |-> 759, stmts |-> <<[line |-> 757, reads |-> {}, writes |-> {"predictors"}, op |-> "predictors", a |-> "predictors", b |-> "", c |-> ""],
      [line |-> 758, reads |-> {"predictors", "tracts"}, writes |-> {"X"}, op |-> "design", a |-> "X", b |-> "tracts", c |-> ""],
      [line |-> 759, reads |-> {"X", "response", "tracts"}, writes |-> {"y"}, op |-> "loc_response", a |-> "y", b |-> "tracts", c |-> ""]>>],
  [first |-> 768, last |-> 772, stmts |-> <<[line |-> 769, reads |-> {"X", "add_constant"}, writes |-> {"Xc"}, op |-> "bind", a |-> "", b |-> "", c |-> ""],
      [line |-> 770, reads |-> {"Xc", "sm", "y"}, writes |-> {"model"}, op |-> "bind", a |-> "", b |-> "", c |-> ""],
      [line |-> 771, reads |-> {"model"}, writes |-> {"result"}, op |-> "fit", a |-> "result", b |-> "model", c |-> ""],
      [line |-> 772, reads |-> {"result"}, writes |-> {}, op |-> "bind", a |-> "", b |-> "", c |-> ""]>>],
  [first |-> 788, last |-> 788, stmts |-> <<[line |-> 788, reads |-> {"tracts"}, writes |-> {}, op |-> "bind", a |-> "", b |-> "", c |-> ""]>>],
  [first |-> 797, last |-> 801, stmts |-> <<[line |-> 798, reads |-> {}, writes |-> {"predictors"}, op |-> "predictors", a |-> "predictors", b |-> "", c |-> ""],
      [line |-> 800, reads |-> {"predictors", "tracts"}, writes |-> {"X"}, op |-> "design", a |-> "X", b |-> "tracts", c |-> ""],
      [line |-> 801, reads |-> {"X", "response", "tracts"}, writes |-> {"y"}, op |-> "loc_response", a |-> "y", b |-> "tracts", c |-> ""]>>],
  [first |-> 810, last |-> 814, stmts |-> <<[line |-> 811, reads |-> {"X", "add_constant"}, writes |-> {"Xc"}, op |-> "bind", a |-> "", b |-> "", c |-> ""],
      [line |-> 812, reads |-> {"Xc", "sm", "y"}, writes |-> {"model"}, op |-> "bind", a |-> "", b |-> "", c |-> ""],
      [line |-> 813, reads |-> {"model"}, writes |-> {"result"}, op |-> "fit", a |-> "result", b |-> "model", c |-> ""],
      [line |-> 814, reads |-> {"result"}, writes |-> {}, op |-> "bind", a |-> "", b |-> "", c |-> ""]>>],
  [first |-> 849, last |-> 852, stmts |-> <<[line |-> 850, reads |-> {"tracts"}, writes |-> {"county", "new_col"}, op |-> "dummy_loop", a |-> "tracts", b |-> "tracts", c |-> ""]>>],
  [first |-> 861, last |-> 864, stmts |-> <<[line |-> 863, reads |-> {"tracts"}, writes |-> {"county_dummies"}, op |-> "county_dummies", a |-> "county_dummies", b |-> "", c |-> ""],
      [line |-> 864, reads |-> {"county_dummies"}, writes |-> {"county_dummies"}, op |-> "drop_first", a |-> "county_dummies", b |-> "", c |-> ""]>>],
  [first |-> 873, last |-> 877, stmts |-> <<[line |-> 874, reads |-> {}, writes |-> {"predictors"}, op |-> "predictors", a |-> "predictors", b |-> "", c |-> ""],
      [line |-> 876, reads |-> {"county_dummies", "predictors", "tracts"}, writes |-> {"X"}, op |-> "design_fe", a |-> "X", b |-> "tracts", c |-> ""],
      [line |-> 877, reads |-> {"X", "response", "tracts"}, writes |-> {"y"}, op |-> "loc_response", a |-> "y", b |-> "tracts", c |-> ""]>>],
  [first |-> 886, last |-> 890, stmts |-> <<[line |-> 887, reads |-> {"X", "add_constant"}, writes |-> {"Xc"}, op |-> "bind", a |-> "", b |-> "", c |-> ""],
      [line |-> 888, reads |-> {"Xc", "sm", "y"}, writes |-> {"model"}, op |-> "bind", a |-> "", b |-> "", c |-> ""],
      [line |-> 889, reads |-> {"model"}, writes |-> {"result"}, op |-> "fit", a |-> "result", b |-> "model", c |-> ""],
      [line |-> 890, reads |-> {"result"}, writes |-> {}, op |-> "bind", a |-> "", b |-> "", c |-> ""]>>],
  [first |-> 908, last |-> 910, stmts |-> <<[line |-> 909, reads |-> {"tracts"}, writes |-> {"counties"}, op |-> "counties", a |-> "counties", b |-> "tracts", c |-> ""],
      [line |-> 910, reads |-> {"counties", "tracts"}, writes |-> {"mask"}, op |-> "isin", a |-> "mask", b |-> "tracts", c |-> ""]>>],
  [first |-> 919, last |-> 922, stmts |-> <<[line |-> 920, reads |-> {"mask", "predictors", "tracts"}, writes |-> {"X"}, op |-> "design_mask", a |-> "X", b |-> "tracts", c |-> ""],
      [line |-> 921, reads |-> {"X", "response", "tracts"}, writes |-> {"Y"}, op |-> "loc_response", a |-> "Y", b |-> "tracts", c |-> ""],
      [line |-> 922, reads |-> {"X", "tracts"}, writes |-> {"regimes"}, op |-> "loc_regimes", a |-> "regimes", b |-> "tracts", c |-> ""]>>],
  [first |-> 931, last |-> 934, stmts |-> <<[line |-> 932, reads |-> {"X", "Y", "ps", "regimes", "response"}, writes |-> {"olsr"}, op |-> "fit", a |-> "olsr", b |-> "X", c |-> ""],
      [line |-> 934, reads |-> {"olsr"}, writes |-> {}, op |-> "bind", a |-> "", b |-> "", c |-> ""]>>],
  [first |-> 952, last |-> 956, stmts |-> <<[line |-> 953, reads |-> {}, writes |-> {"predictors"}, op |-> "predictors", a |-> "predictors", b |-> "", c |-> ""],
      [line |-> 955, reads |-> {"predictors", "tracts"}, writes |-> {"X"}, op |-> "design", a |-> "X", b |-> "tracts", c |-> ""],
      [line |-> 956, reads |-> {"X", "response", "tracts"}, writes |-> {"Y"}, op |-> "loc_response", a |-> "Y", b |-> "tracts", c |-> ""]>>],
  [first |-> 965, last |-> 967, stmts |-> <<[line |-> 966, reads |-> {"X", "ps", "tracts"}, writes |-> {"W"}, op |-> "weights", a |-> "W", b |-> "tracts", c |-> ""],
      [line |-> 967, reads |-> {"W"}, writes |-> {}, op |-> "bind", a |-> "", b |-> "", c |-> ""]>>],
  [first |-> 976, last |-> 977, stmts |-> <<[line |-> 977, reads |-> {"W", "X", "Y", "ps"}, writes |-> {"ols"}, op |-> "fit", a |-> "ols", b |-> "X", c |-> ""]>>],
  [first |-> 986, last |-> 989, stmts |-> <<[line |-> 987, reads |-> {"W", "Y", "ps"}, writes |-> {"mi"}, op |-> "moran", a |-> "mi", b |-> "Y", c |-> ""],
      [line |-> 988, reads |-> {"mi"}, writes |-> {}, op |-> "bind", a |-> "", b |-> "", c |-> ""],
      [line |-> 989, reads |-> {"mi"}, writes |-> {}, op |-> "bind", a |-> "", b |-> "", c |-> ""]>>],
  [first |-> 998, last |-> 999, stmts |-> <<[line |-> 999, reads |-> {"ols"}, writes |-> {}, op |-> "show", a |-> "", b |-> "ols", c |-> "moran_res"]>>],
  [first |-> 1017, last |-> 1018, stmts |-> <<[line |-> 1018, reads |-> {"ols"}, writes |-> {}, op |-> "show", a |-> "", b |-> "ols", c |-> "lm_lag"]>>],
  [first |-> 1027, last |-> 1028, stmts |-> <<[line |-> 1028, reads |-> {"ols"}, writes |-> {}, op |-> "show", a |-> "", b |-> "ols", c |-> "lm_error"]>>],
  [first |-> 1046, last |-> 1047, stmts |-> <<[line |-> 1047, reads |-> {"ols"}, writes |-> {}, op |-> "show", a |-> "", b |-> "ols", c |-> "rlm_lag"]>>],
  [first |-> 1056, last |-> 1057, stmts |-> <<[line |-> 1057, reads |-> {"ols"}, writes |-> {}, op |-> "show", a |-> "", b |-> "ols", c |-> "rlm_error"]>>],
  [first |-> 1097, last |-> 1100, stmts |-> <<[line |-> 1098, reads |-> {"W", "X", "Y", "ps", "response"}, writes |-> {"mll"}, op |-> "fit", a |-> "mll", b |-> "X", c |-> ""],
      [line |-> 1100, reads |-> {"mll"}, writes |-> {}, op |-> "bind", a |-> "", b |-> "", c |-> ""]>>],
  [first |-> 1109, last |-> 1110, stmts |-> <<[line |-> 1110, reads |-> {"mll"}, writes |-> {}, op |-> "bind", a |-> "", b |-> "", c |-> ""]>>],
  [first |-> 1138, last |-> 1141, stmts |-> <<[line |-> 1139, reads |-> {"W", "X", "Y", "ps", "response"}, writes |-> {"mle"}, op |-> "fit", a |-> "mle", b |-> "X", c |-> ""],
      [line |-> 1141, reads |-> {"mle"}, writes |-> {}, op |-> "bind", a |-> "", b |-> "", c |-> ""]>>],
  [first |-> 1150, last |-> 1151, stmts |-> <<[line |-> 1151, reads |-> {"mle"}, writes |-> {}, op |-> "bind", a |-> "", b |-> "", c |-> ""]>>],
  [first |-> 1181, last |-> 1183, stmts |-> <<[line |-> 1181, reads |-> {"W", "X", "Y", "ps", "response"}, writes |-> {"gmc"}, op |-> "fit", a |-> "gmc", b |-> "X", c |-> ""],
      [line |-> 1183, reads |-> {"gmc"}, writes |-> {}, op |-> "bind", a |-> "", b |-> "", c |-> ""]>>]
  >>

(* ------------------------------ files --------------------------------- *)
InputFiles ==
  {"usa-latlong.csv", "states.shp", "states.geojson", "listings.csv",
   "tracts.csv", "gps-coords.csv", "census_tracts_data.geojson"}

OutputFiles == {"states2", "map.png"}

Files == InputFiles \cup OutputFiles

\* a file is absent, holds its original content, or was written by a line
Absent == [ver |-> -1, writes |-> 0]
Original == [ver |-> 0, writes |-> 0]

(* ------------------------------- CRS ---------------------------------- *)
Crs(def, proj, units) == [def |-> def, proj |-> proj, units |-> units]

None == Crs("None", "", "")

original_crs == Crs("epsg:4326", "longlat", "degree")

utm_11 ==
  Crs("+proj=utm +zone=11 +ellps=GRS80 +datum=NAD83 +units=m +no_defs", "utm", "m")

map_width_m == 5000 * 1000

map_height_m == 3500 * 1000

albers_usa ==
  Crs("datum=NAD83 ellps=GRS80 proj=aea lat_1=33 lat_2=45 lon_0=-97 lat_0=39 x_0=2500000 y_0=1750000 units=m",
      "aea", "m")

\* the reference system stored with the states shapefile (lat-long degrees)
shp_crs == Crs("states.prj", "longlat", "degree")

(* ------------------------------ frames -------------------------------- *)
\* crs: the declared reference system; coords: the system the coordinate
\* numbers are expressed in; rows: the rows in order; cols: column names;
\* area / index_right: the columns of that name, aligned with the rows.
Frame(crs, coords, rows, cols) ==
  [crs |-> crs, coords |-> coords, rows |-> rows, cols |-> cols,
   area |-> <<>>, index_right |-> <<>>]

NoFrame == Frame(None, None, <<>>, {})

Row(label, name, sub_region, geom) ==
  [label |-> label, name |-> name, sub_region |-> sub_region, geom |-> geom]

FrameVarsOf(nb) ==
  CASE nb = "module04" -> {"df", "dt"}
    [] nb = "module06" ->
         {"df", "usa_points", "states", "states2", "california", "cal_points",
          "contiguous_usa_points", "contiguous_states", "subregions", "texas",
          "buffered_points", "contiguous_states_proj", "rents", "rents_states"}
    [] nb = "module10" -> {"tracts"}

PolyVars == {"california_polygon", "alaska_polygon", "hawaii_polygon", "geometry"}

NoPoly == [geom |-> {}, coords |-> None]

(* --------------------------- file contents ---------------------------- *)
\* rows of a csv of points: labels 0..n-1 (RangeIndex), one location each
PointRows(locs) ==
  [i \in 1..Len(locs) |-> Row(i - 1, "", "", {locs[i]})]

\* rows of the states shapefile; only California and Texas vary
StateRows(ca, tx) ==
  << Row(0, "Alaska", "Pacific", {}),
     Row(1, "California", "Pacific", ca),
     Row(2, "Hawaii", "Pacific", {}),
     Row(3, "Massachusetts", "New England", {}),
     Row(4, "Texas", "West South Central", tx) >>

SeqsUpTo(S, n) == UNION {[1..k -> S] : k \in 0..n}

(* ---------------------------- arithmetic ------------------------------ *)
RECURSIVE Gcd(_, _)
Gcd(a, b) == IF b = 0 THEN a ELSE Gcd(b, a % b)

\* the quotient a / b of true division, as a fraction in lowest terms
Ratio(a, b) == LET g == Gcd(a, b) IN <<a \div g, b \div g>>

(* ------------------------ interpreter state --------------------------- *)
Raise(st, e) == [st EXCEPT !.err = e]

(* ------------------------- library operations ------------------------- *)
\* pd.read_csv: a plain table, no reference system, no geometry column
ReadCsv(st, s, inp) ==
  IF s.b \in st.env.unreadable THEN Raise(st, "FileNotFoundError")
  ELSE [st EXCEPT !.rd = @ \cup {[line |-> s.line, kind |-> "file", var |-> s.b, ver |-> st.fs[s.b].ver]},
                  !.frames[s.a] = Frame(None, None, inp.rows, {"latitude", "longitude"})]

\* gpd.GeoDataFrame(df): same rows, still no reference system
GeoDataFrame(st, s) ==
  [st EXCEPT !.frames[s.a] =
     Frame(None, st.frames[s.b].coords, st.frames[s.b].rows, st.frames[s.b].cols)]

\* frame[col] = ...; a 'geometry' column of Points holds lat-long coordinates
SetCol(st, s) ==
  [st EXCEPT !.frames[s.a].cols = @ \cup {s.b},
             !.frames[s.a].coords = IF s.b = "geometry" THEN original_crs ELSE @]

\* variant: the assignment to .crs is left out
SetCrsOmitted(st, s) == st

\* frame.crs = original_crs: declares the system, coordinates untouched
SetCrs(st, s) == [st EXCEPT !.frames[s.a].crs = original_crs]

CrsValue(st, name) ==
  CASE name = "utm_11" -> utm_11
    [] name = "albers_usa" -> albers_usa
    [] OTHER -> st.frames[name].crs

\* variant: to_crs reprojects the frame it is called on, in place
ToCrsInPlace(st, s) ==
  LET src == st.frames[s.b]
      tgt == IF s.c = "utm_11" THEN utm_11
             ELSE IF s.c = "albers_usa" THEN albers_usa ELSE st.frames[s.c].crs
      res == [src EXCEPT !.crs = tgt, !.coords = tgt]
  IN IF src.crs = None \/ tgt = None
     THEN Raise(st, "ValueError: Cannot transform naive geometries")
     ELSE IF s.a = "" THEN [st EXCEPT !.geo.out = res, !.frames[s.b] = res]
     ELSE [st EXCEPT !.frames[s.a] = res]

\* src.to_crs(target): needs a declared source system; returns a new frame
\* whose coordinates are in the target system; binds it only when assigned
ToCrs(st, s) ==
  LET src == st.frames[s.b]
      tgt == CrsValue(st, s.c)
      res == [src EXCEPT !.crs = tgt, !.coords = tgt]
  IN IF src.crs = None \/ tgt = None THEN Raise(st, "ValueError: Cannot transform naive geometries")
     ELSE IF s.a = "" THEN [st EXCEPT !.geo.out = res]
     ELSE [st EXCEPT !.frames[s.a] = res]

\* gpd.read_file / GeoDataFrame.from_file: rows with a geometry column and
\* the reference system stored with the file
ReadFile(st, s, inp) ==
  IF s.b \in st.env.unreadable THEN Raise(st, "FileNotFoundError")
  ELSE IF s.b = "census_tracts_data.geojson"
       THEN [st EXCEPT !.rd = @ \cup {[line |-> s.line, kind |-> "file", var |-> s.b, ver |-> st.fs[s.b].ver]},
                       !.reg.tracts = inp.rows]
  ELSE [st EXCEPT !.rd = @ \cup {[line |-> s.line, kind |-> "file", var |-> s.b, ver |-> st.fs[s.b].ver]},
                  !.frames[s.a] =
          Frame(IF s.b = "states.shp" THEN st.env.shp_crs ELSE original_crs,
                IF s.b = "states.shp" THEN shp_crs ELSE original_crs,
                inp.rows, {"STATE_NAME", "SUB_REGION", "geometry"})]

\* rows[m] for a boolean mask m aligned with the rows
ByMask(rows, m) ==
  LET F[i \in 0..Len(rows)] ==
        IF i = 0 THEN <<>>
        ELSE IF m[i] THEN Append(F[i - 1], rows[i]) ELSE F[i - 1]
  IN F[Len(rows)]

Not(m) == [i \in DOMAIN m |-> ~m[i]]

unary_union(rows) == UNION {rows[i].geom : i \in DOMAIN rows}

\* states['geometry'].intersects(usa_points['geometry'].unary_union)
Intersects(st, s) ==
  IF "geometry" \notin st.frames["usa_points"].cols THEN Raise(st, "KeyError")
  ELSE LET rows == st.frames[s.b].rows
           u == unary_union(st.frames["usa_points"].rows)
       IN [st EXCEPT !.geo.mask = [i \in DOMAIN rows |-> rows[i].geom \cap u # {}]]

\* (states['STATE_NAME']!='Alaska') & (states['STATE_NAME']!='Hawaii')
Contiguous(st, s) ==
  LET rows == st.frames[s.b].rows
  IN [st EXCEPT !.geo.mask =
        [i \in DOMAIN rows |-> rows[i].name # "Alaska" /\ rows[i].name # "Hawaii"]]

\* states[states['STATE_NAME']==c]
Select(st, s) ==
  LET src == st.frames[s.b]
  IN [st EXCEPT !.frames[s.a] =
        [src EXCEPT !.rows = SelectSeq(src.rows, LAMBDA r: r.name = s.c)]]

\* geoseries.iloc[0]
Iloc0(st, s) ==
  LET src == st.frames[s.b]
  IN IF src.rows = <<>> THEN Raise(st, "IndexError")
     ELSE [st EXCEPT !.geo.poly[s.a] = [geom |-> src.rows[1].geom, coords |-> src.coords]]

\* states[states['STATE_NAME']==c]['geometry'].iloc[0]
Polygon(st, s) ==
  LET src == st.frames[s.b]
      sel == SelectSeq(src.rows, LAMBDA r: r.name = s.c)
  IN IF sel = <<>> THEN Raise(st, "IndexError")
     ELSE [st EXCEPT !.geo.poly[s.a] = [geom |-> sel[1].geom, coords |-> src.coords]]

\* p.within(polygon): every location of p lies in the polygon
within(geom, polygon) == geom # {} /\ geom \subseteq polygon

\* usa_points[usa_points.within(california_polygon)]
Within(st, s) ==
  LET src == st.frames[s.b]
  IN IF "geometry" \notin src.cols THEN Raise(st, "AttributeError")
     ELSE [st EXCEPT !.frames[s.a] =
             [src EXCEPT !.rows = SelectSeq(src.rows,
                LAMBDA r: within(r.geom, st.geo.poly["california_polygon"].geom))]]

\* usa_points.within(alaska_polygon) | usa_points.within(hawaii_polygon)
Within2(st, s) ==
  LET src == st.frames[s.b]
  IN IF "geometry" \notin src.cols THEN Raise(st, "AttributeError")
     ELSE [st EXCEPT !.geo.alaska_hawaii_mask =
             [i \in DOMAIN src.rows |->
                \/ within(src.rows[i].geom, st.geo.poly["alaska_polygon"].geom)
                \/ within(src.rows[i].geom, st.geo.poly["hawaii_polygon"].geom)]]

\* usa_points[~alaska_hawaii_mask]
NotMask(st, s) ==
  LET src == st.frames[s.b]
  IN [st EXCEPT !.frames[s.a] =
        [src EXCEPT !.rows = ByMask(src.rows, Not(st.geo.alaska_hawaii_mask))]]

\* states[mask]
StatesByMask(st, s) ==
  LET src == st.frames[s.b]
  IN [st EXCEPT !.frames[s.a] = [src EXCEPT !.rows = ByMask(src.rows, st.geo.mask)]]

\* contiguous_states.dissolve('SUB_REGION'): one row per sub-region
Dissolve(st, s) ==
  LET src == st.frames[s.b]
      first(i) == \A j \in 1..(i - 1) : src.rows[j].sub_region # src.rows[i].sub_region
      F[i \in 0..Len(src.rows)] ==
        IF i = 0 THEN <<>>
        ELSE IF first(i)
             THEN Append(F[i - 1],
                    Row(Len(F[i - 1]), "", src.rows[i].sub_region,
                        UNION {src.rows[j].geom : j \in
                                 {k \in DOMAIN src.rows :
                                    src.rows[k].sub_region = src.rows[i].sub_region}}))
             ELSE F[i - 1]
  IN [st EXCEPT !.frames[s.a] = [src EXCEPT !.rows = F[Len(src.rows)]]]

\* contiguous_states.copy()
Copy(st, s) == [st EXCEPT !.frames[s.a] = st.frames[s.b]]

\* the distance passed to buffer(), as a fraction
BufferDistance(line) ==
  CASE line = 459 -> <<1, 1>>
    [] line = 468 -> <<1, 2>>
    [] line = 585 -> <<30000, 1>>

\* geometry.buffer(distance): the distance is in the units of the coordinates
Buffer(st, s) ==
  LET coords == IF s.b \in PolyVars THEN st.geo.poly[s.b].coords
                ELSE st.frames[s.b].coords
      b == [line |-> s.line, src |-> s.b, distance |-> BufferDistance(s.line),
            units |-> coords.units, crs |-> coords]
  IN IF s.a = "" THEN [st EXCEPT !.geo.buffers = @ \cup {b}]
     ELSE [st EXCEPT !.geo.buffers = @ \cup {b},
                     !.frames[s.a] = [st.frames[s.b] EXCEPT !.cols = {"geometry"}]]

\* GeoSeries.area: in squared units of the coordinates
Area(geom, coords) ==
  IF coords.units = "m" THEN Cardinality(geom) * CellAreaM2 ELSE Cardinality(geom)

\* contiguous_states['area'] = contiguous_states.area
SetArea(st, s) ==
  LET f == st.frames[s.a]
  IN [st EXCEPT !.frames[s.a].cols = @ \cup {"area"},
                !.frames[s.a].area =
                   [i \in DOMAIN f.rows |-> Ratio(Area(f.rows[i].geom, f.coords), 1)]]

\* contiguous_states_proj['area'] = contiguous_states_proj.area / 1e9
SetAreaSqKm(st, s) ==
  LET f == st.frames[s.a]
  IN [st EXCEPT !.frames[s.a].cols = @ \cup {"area"},
                !.frames[s.a].area =
                   [i \in DOMAIN f.rows |-> Ratio(Area(f.rows[i].geom, f.coords), 10^9)]]

\* variant: an inner join: left rows without a match are dropped
SjoinInner(left, right) ==
  LET matches(l) == SelectSeq(right, LAMBDA r: l.geom # {} /\ l.geom \subseteq r.geom)
      F[i \in 0..Len(left)] ==
        IF i = 0 THEN [rows |-> <<>>, index_right |-> <<>>]
        ELSE LET m == matches(left[i])
             IN [rows |-> F[i - 1].rows \o [k \in 1..Len(m) |-> left[i]],
                 index_right |-> F[i - 1].index_right \o [k \in 1..Len(m) |-> m[k].label]]
  IN F[Len(left)]

\* gpd.sjoin(left, right, how='left', op='within'): every left row once per
\* right row it is within, or once with no match (index_right -1 for NaN)
Sjoin(left, right) ==
  LET matches(l) == SelectSeq(right, LAMBDA r: within(l.geom, r.geom))
      F[i \in 0..Len(left)] ==
        IF i = 0 THEN [rows |-> <<>>, index_right |-> <<>>]
        ELSE LET m == matches(left[i])
                 n == IF m = <<>> THEN 1 ELSE Len(m)
             IN [rows |-> F[i - 1].rows \o [k \in 1..n |-> left[i]],
                 index_right |-> F[i - 1].index_right \o
                    [k \in 1..n |-> IF m = <<>> THEN -1 ELSE m[k].label]]
  IN F[Len(left)]

SpatialJoin(st, s) ==
  LET l == st.frames[s.b]
      j == Sjoin(l.rows, st.frames[s.c].rows)
  IN [st EXCEPT !.frames[s.a] =
        [l EXCEPT !.rows = j.rows, !.index_right = j.index_right,
                  !.cols = @ \cup st.frames[s.c].cols \cup {"index_right"}]]

\* variant: to_file saves over the file the frame was read from
WriteFileInPlace(st, s) ==
  LET f == IF s.op = "tofile" THEN "states.geojson" ELSE s.b
  IN [st EXCEPT !.fs[f] = [ver |-> s.line, writes |-> @.writes + 1]]

\* variant: to_file saves over the tracts dataset of the regression notebook
WriteFileWrongPath(st, s) ==
  LET f == IF s.op = "tofile" THEN "census_tracts_data.geojson" ELSE s.b
  IN [st EXCEPT !.fs[f] = [ver |-> s.line, writes |-> @.writes + 1]]

\* states2.to_file('data/states2') and fig.savefig('data/map.png', dpi=600)
WriteFile(st, s) ==
  [st EXCEPT !.fs[s.b] = [ver |-> s.line, writes |-> @.writes + 1]]

(* ----------------------- regression notebook -------------------------- *)
response == "med_home_value"

Counties == {"001", "013"}

\* the predictor columns a tract may have a null in
NullChoices == {{}, {"med_household_income"}, {"pct_white"}}

\* a tract: its index label, whether its response is non-null, the
\* predictor columns that are null, its county, and its dummy columns
Tract(label, resp, nulls, county) ==
  [label |-> label, response |-> resp, nulls |-> nulls, COUNTYFP |-> county,
   dummies |-> <<>>]

TractFiles ==
  LET Kinds == {<<r, n, c>> : r \in BOOLEAN, n \in NullChoices, c \in Counties}
  IN {[i \in DOMAIN f |-> Tract(i - 1, f[i][1], f[i][2], f[i][3])] :
        f \in UNION {[1..k -> Kinds] : k \in 1..MaxTracts}}

\* county codes of the wider datasets
ManyCounties == Counties \cup {"037", "059"}

\* complete datasets over more counties than the regimes cell keeps
CountyFiles ==
  {[i \in DOMAIN f |-> Tract(i - 1, TRUE, {}, f[i])] :
     f \in UNION {[1..k -> ManyCounties] : k \in 1..MaxCountyTracts}}

SampleTracts ==
  << Tract(0, TRUE, {}, "001"), Tract(1, FALSE, {}, "001"),
     Tract(2, TRUE, {"pct_white"}, "013") >>

PredictorsAt(line) ==
  CASE line = 710 -> <<"med_household_income">>
    [] line = 757 -> <<"med_household_income", "pct_white">>
    [] OTHER -> <<"med_household_income", "pct_white", "pct_single_family_home",
                  "pct_built_before_1940", "med_rooms_per_home", "pct_bachelors_degree">>

Range(f) == {f[i] : i \in DOMAIN f}

\* Series.unique(): distinct values in order of first appearance
Unique(rows) ==
  LET F[i \in 0..Len(rows)] ==
        IF i = 0 THEN <<>>
        ELSE IF rows[i].COUNTYFP \in Range(F[i - 1]) THEN F[i - 1]
             ELSE Append(F[i - 1], rows[i].COUNTYFP)
  IN F[Len(rows)]

\* variant: tracts.dropna(subset=[response]) without the assignment
DropnaNotAssigned(st, s) == st

\* tracts = tracts.dropna(subset=[response])
DropnaSubset(st, s) ==
  [st EXCEPT !.reg.tracts = SelectSeq(st.reg.tracts, LAMBDA r: r.response)]

SetPredictors(st, s) == [st EXCEPT !.reg.predictors = PredictorsAt(s.line)]

\* frame[cols].dropna(): the rows with no null in any selected column,
\* each keeping its index label and only the selected columns
Dropna(rows, cols, dums) ==
  LET kept == SelectSeq(rows, LAMBDA r: r.nulls \cap Range(cols) = {})
  IN [i \in DOMAIN kept |->
        [label |-> kept[i].label, nulls |-> kept[i].nulls \cap Range(cols),
         dummies |-> [c \in Range(dums) |-> kept[i].dummies[c]]]]

\* X = tracts[predictors].dropna()
Design(st, s) ==
  [st EXCEPT !.reg.X = [cols |-> st.reg.predictors, dummies |-> <<>>,
                        rows |-> Dropna(st.reg.tracts, st.reg.predictors, <<>>)]]

\* X = tracts[predictors + county_dummies].dropna()
DesignFE(st, s) ==
  IF ~(Range(st.reg.county_dummies) \subseteq st.reg.cols) THEN Raise(st, "KeyError")
  ELSE [st EXCEPT !.reg.X =
          [cols |-> st.reg.predictors, dummies |-> st.reg.county_dummies,
           rows |-> Dropna(st.reg.tracts, st.reg.predictors, st.reg.county_dummies)]]

\* variant: X = tracts[predictors].dropna(), the mask left out
DesignMaskIgnored(st, s) ==
  [st EXCEPT !.reg.X =
     [cols |-> st.reg.predictors, dummies |-> <<>>,
      rows |-> Dropna(st.reg.tracts, st.reg.predictors, <<>>)]]

\* X = tracts.loc[mask, predictors].dropna()
DesignMask(st, s) ==
  [st EXCEPT !.reg.X =
     [cols |-> st.reg.predictors, dummies |-> <<>>,
      rows |-> Dropna(ByMask(st.reg.tracts, st.reg.mask), st.reg.predictors, <<>>)]]

\* frame.loc[index]: for each label of index in turn, the rows so labelled
Loc_(rows, index) ==
  LET F[i \in 0..Len(index)] ==
        IF i = 0 THEN <<>>
        ELSE F[i - 1] \o SelectSeq(rows, LAMBDA r: r.label = index[i])
  IN F[Len(index)]

Index(rows) == [i \in DOMAIN rows |-> rows[i].label]

HasLabels(rows, index) == Range(index) \subseteq Range(Index(rows))

\* variant: y = tracts[response], without .loc[X.index]
LocResponseUnaligned(st, s) ==
  LET sel == st.reg.tracts
      col == [i \in DOMAIN sel |-> [label |-> sel[i].label, response |-> sel[i].response]]
  IN IF s.a = "y" THEN [st EXCEPT !.reg.y = col] ELSE [st EXCEPT !.reg.Y = col]

\* y = tracts.loc[X.index][response]   (Y = ...[[response]] likewise)
LocResponse(st, s) ==
  LET idx == Index(st.reg.X.rows)
      sel == Loc_(st.reg.tracts, idx)
      col == [i \in DOMAIN sel |-> [label |-> sel[i].label, response |-> sel[i].response]]
  IN IF ~HasLabels(st.reg.tracts, idx) THEN Raise(st, "KeyError")
     ELSE IF s.a = "y" THEN [st EXCEPT !.reg.y = col]
     ELSE [st EXCEPT !.reg.Y = col]

\* regimes = tracts.loc[X.index]['COUNTYFP']
LocRegimes(st, s) ==
  LET idx == Index(st.reg.X.rows)
      sel == Loc_(st.reg.tracts, idx)
  IN IF ~HasLabels(st.reg.tracts, idx) THEN Raise(st, "KeyError")
     ELSE [st EXCEPT !.reg.regimes =
             [i \in DOMAIN sel |-> [label |-> sel[i].label, COUNTYFP |-> sel[i].COUNTYFP]]]

\* variant: the comparison of the loop inverted (!= for ==)
DummyLoopInverted(st, s) ==
  LET t == st.reg.tracts
      u == Range(Unique(t))
  IN [st EXCEPT !.reg.cols = @ \cup u,
                !.reg.tracts =
                   [i \in DOMAIN t |->
                      [t[i] EXCEPT !.dummies =
                         [c \in u |-> IF t[i].COUNTYFP # c THEN 1 ELSE 0]]]]

\* for county in tracts['COUNTYFP'].unique():
\*     tracts[f'dummy_county_{county}'] = (tracts['COUNTYFP'] == county).astype(int)
DummyLoop(st, s) ==
  LET t == st.reg.tracts
      u == Range(Unique(t))
  IN [st EXCEPT !.reg.cols = @ \cup u,
                !.reg.tracts =
                   [i \in DOMAIN t |->
                      [t[i] EXCEPT !.dummies =
                         [c \in u |-> IF t[i].COUNTYFP = c THEN 1 ELSE 0]]]]

\* county_dummies = [f'dummy_county_{county}' for county in tracts['COUNTYFP'].unique()]
CountyDummies(st, s) == [st EXCEPT !.reg.county_dummies = Unique(st.reg.tracts)]

\* county_dummies = county_dummies[1:]
DropFirst(st, s) ==
  [st EXCEPT !.reg.county_dummies = IF @ = <<>> THEN <<>> ELSE Tail(@)]

\* the orders in which a sort may leave values of equal count
TieOrders(S) ==
  {p \in [1..Cardinality(S) -> S] : \A i, j \in DOMAIN p : i # j => p[i] # p[j]}

\* Series.value_counts().index: values by descending count; the order of
\* values of equal count is the sort's (ties), or that of first appearance
ValueCounts(rows, ties) ==
  LET u == Unique(rows)
      n(c) == Cardinality({i \in DOMAIN rows : rows[i].COUNTYFP = c})
      pos(i) == IF ties = <<>> THEN i ELSE CHOOSE k \in DOMAIN ties : ties[k] = u[i]
      before(i, j) == n(u[i]) > n(u[j]) \/ (n(u[i]) = n(u[j]) /\ pos(i) < pos(j))
      rank(j) == Cardinality({i \in DOMAIN u : before(i, j)})
  IN [k \in DOMAIN u |-> u[CHOOSE j \in DOMAIN u : rank(j) = k - 1]]

\* counties = tracts['COUNTYFP'].value_counts().index[:3]
TopCounties(st, s, inp) ==
  LET vc == ValueCounts(st.reg.tracts, inp.ties)
  IN [st EXCEPT !.reg.counties = SubSeq(vc, 1, IF Len(vc) < 3 THEN Len(vc) ELSE 3)]

\* mask = tracts['COUNTYFP'].isin(counties)
Isin(st, s) ==
  LET t == st.reg.tracts
  IN [st EXCEPT !.reg.mask =
        [i \in DOMAIN t |-> t[i].COUNTYFP \in Range(st.reg.counties)]]

\* variant: W = ps.lib.weights.Queen.from_dataframe(tracts)
WeightsAllTracts(st, s) == [st EXCEPT !.reg.W = Index(st.reg.tracts)]

\* W = ps.lib.weights.Queen.from_dataframe(tracts.loc[X.index])
Weights(st, s) ==
  LET idx == Index(st.reg.X.rows)
  IN IF ~HasLabels(st.reg.tracts, idx) THEN Raise(st, "KeyError")
     ELSE [st EXCEPT !.reg.W = Index(Loc_(st.reg.tracts, idx))]

\* the estimators: a singular or empty design matrix raises; otherwise the
\* observations handed to the estimator are recorded, and spreg.OLS with
\* spat_diag=True holds the Lagrange Multiplier diagnostics
Fit(st, s, inp) ==
  LET yy == IF s.line < 900 THEN st.reg.y ELSE st.reg.Y
      f == [line |-> s.line, x |-> Index(st.reg.X.rows), y |-> yy,
            w |-> IF s.line > 970 THEN st.reg.W ELSE <<>>,
            regimes |-> IF s.line = 932 THEN st.reg.regimes ELSE <<>>]
  IN IF st.reg.X.rows = <<>> THEN Raise(st, "ValueError: empty design matrix")
     ELSE IF st.env.singular THEN Raise(st, "LinAlgError")
     ELSE [st EXCEPT !.reg.fits = @ \cup {f},
                     !.reg.ols = IF s.line = 977 THEN inp.lm ELSE @]

\* mi = ps.explore.esda.Moran(y=Y, w=W, two_tailed=True)
Moran(st, s) ==
  [st EXCEPT !.reg.fits = @ \cup {[line |-> s.line, x |-> <<>>, y |-> st.reg.Y,
                                   w |-> st.reg.W, regimes |-> <<>>]}]

\* a cell whose last expression is an attribute of ols displays it
Show(st, s) == [st EXCEPT !.reg.shown = @ \cup {s.c}]

(* --------------------------- file contents ---------------------------- *)
\* pandas/geopandas parse a file into rows
NoInput == [rows |-> <<>>]

\* the contents a file may have; with sample = "fixed" one sample dataset
Contents(file, sample) ==
  CASE file = "usa-latlong.csv" ->
         IF sample = "fixed" THEN {[rows |-> PointRows(<<1>>)]}
         ELSE {[rows |-> PointRows(l)] : l \in SeqsUpTo(Loc, MaxUsa)}
    [] file = "listings.csv" ->
         IF sample = "fixed" THEN {[rows |-> PointRows(<<1, 2>>)]}
         ELSE {[rows |-> PointRows(l)] : l \in SeqsUpTo(Loc, MaxListings)}
    [] file = "states.shp" ->
         IF sample = "fixed" THEN {[rows |-> StateRows({1}, {2})]}
         ELSE {[rows |-> StateRows(ca, tx)] : ca \in SUBSET Loc, tx \in SUBSET Loc}
    [] file = "states.geojson" -> {[rows |-> StateRows({1}, {2})]}
    [] file = "census_tracts_data.geojson" ->
         IF sample = "fixed" THEN {[rows |-> SampleTracts]}
         ELSE IF sample = "counties" THEN {[rows |-> t] : t \in CountyFiles}
         ELSE {[rows |-> t] : t \in TractFiles}
    [] OTHER -> {NoInput}

(* ---------------------------- interpreter ----------------------------- *)
Cells(nb) ==
  CASE nb = "module04" -> Cells04
    [] nb = "module06" -> Cells06
    [] nb = "module10" -> Cells10

\* the library call a statement makes
Apply(st, s, inp) ==
  CASE s.op = "read_csv" -> ReadCsv(st, s, inp)
    [] s.op = "read_file" -> ReadFile(st, s, inp)
    [] s.op = "frame" -> GeoDataFrame(st, s)
    [] s.op = "setcol" -> SetCol(st, s)
    [] s.op = "setcrs" -> SetCrs(st, s)
    [] s.op = "tocrs" -> ToCrs(st, s)
    [] s.op = "intersects" -> Intersects(st, s)
    [] s.op = "contiguous" -> Contiguous(st, s)
    [] s.op = "select" -> Select(st, s)
    [] s.op = "iloc0" -> Iloc0(st, s)
    [] s.op = "polygon" -> Polygon(st, s)
    [] s.op = "within" -> Within(st, s)
    [] s.op = "within2" -> Within2(st, s)
    [] s.op = "not_mask" -> NotMask(st, s)
    [] s.op = "by_mask" -> StatesByMask(st, s)
    [] s.op = "dissolve" -> Dissolve(st, s)
    [] s.op = "copy" -> Copy(st, s)
    [] s.op = "buffer" -> Buffer(st, s)
    [] s.op = "area" -> SetArea(st, s)
    [] s.op = "area_sqkm" -> SetAreaSqKm(st, s)
    [] s.op = "sjoin" -> SpatialJoin(st, s)
    [] s.op \in {"tofile", "savefig"} -> WriteFile(st, s)
    [] s.op = "dropna_subset" -> DropnaSubset(st, s)
    [] s.op = "predictors" -> SetPredictors(st, s)
    [] s.op = "design" -> Design(st, s)
    [] s.op = "design_fe" -> DesignFE(st, s)
    [] s.op = "design_mask" -> DesignMask(st, s)
    [] s.op = "loc_response" -> LocResponse(st, s)
    [] s.op = "loc_regimes" -> LocRegimes(st, s)
    [] s.op = "dummy_loop" -> DummyLoop(st, s)
    [] s.op = "county_dummies" -> CountyDummies(st, s)
    [] s.op = "drop_first" -> DropFirst(st, s)
    [] s.op = "counties" -> TopCounties(st, s, inp)
    [] s.op = "isin" -> Isin(st, s)
    [] s.op = "weights" -> Weights(st, s)
    [] s.op = "fit" -> Fit(st, s, inp)
    [] s.op = "moran" -> Moran(st, s)
    [] s.op = "show" -> Show(st, s)
    [] OTHER -> st

\* variant: a name keeps its first binding
BindFirst(names, s) ==
  [v \in DOMAIN names |-> IF v \in s.writes /\ names[v] = 0 THEN s.line ELSE names[v]]

\* variant: the design-matrix cells lack the statement predictors = ...
BindWithoutPredictors(names, s) ==
  [v \in DOMAIN names |->
     IF v \in s.writes /\ v # "predictors" THEN s.line ELSE names[v]]

\* name = value: the name now refers to the value bound at this line
Bind(names, s) == [v \in DOMAIN names |-> IF v \in s.writes THEN s.line ELSE names[v]]

\* one statement: an unbound name raises NameError; an error raised by the
\* library call propagates and the statement binds nothing
ExecStmt(st, s, inp) ==
  IF st.err # "" THEN st
  ELSE IF \E v \in s.reads : st.ns[v] = 0 THEN Raise(st, "NameError")
  ELSE LET st1 == [st EXCEPT !.rd = @ \cup
                      {[line |-> s.line, kind |-> "name", var |-> v, ver |-> st.ns[v]] : v \in s.reads}]
           st2 == Apply(st1, s, inp)
       IN IF st2.err # "" THEN st2 ELSE [st2 EXCEPT !.ns = Bind(@, s)]

\* the statements of a cell run in order; the first error ends the cell
ExecCell(st, cell, inp) ==
  LET F[i \in 0..Len(cell.stmts)] ==
        IF i = 0 THEN st ELSE ExecStmt(F[i - 1], cell.stmts[i], inp)
  IN F[Len(cell.stmts)]

\* the file a cell reads, if any
FileRead(cell) ==
  LET r == {i \in DOMAIN cell.stmts : cell.stmts[i].op \in {"read_csv", "read_file"}}
  IN IF r = {} THEN "" ELSE cell.stmts[CHOOSE i \in r : TRUE].b

HasOp(cell, op) == \E i \in DOMAIN cell.stmts : cell.stmts[i].op = op

\* what a cell's outcome depends on besides the kernel's state: the contents
\* of the file it reads, the order a sort leaves equal counts in, and the
\* significance of the LM statistics the data give
Inputs(cell, sample) ==
  LET ties == IF sample = "fixed" \/ ~HasOp(cell, "counties") THEN {<<>>}
              ELSE TieOrders(IF sample = "counties" THEN ManyCounties ELSE Counties)
      lms == IF sample # "any" \/ ~HasOp(cell, "fit")
             THEN {[lm_lag |-> TRUE, lm_error |-> FALSE]}
             ELSE [lm_lag : BOOLEAN, lm_error : BOOLEAN]
  IN {[rows |-> c.rows, ties |-> t, lm |-> l] :
        c \in Contents(FileRead(cell), sample), t \in ties, l \in lms}

(* ------------------------------ actions ------------------------------- *)
\* variant: the kernel carries on with the next cell after an error
RunCellAllowErrors(nb) ==
  /\ nb \in env.active
  /\ pc[nb] <= Len(Cells(nb))
  /\ LET cell == Cells(nb)[pc[nb]]
     IN \E inp \in Inputs(cell, env.sample) :
          \E r \in {ExecCell([ns |-> ns[nb], frames |-> frames[nb], fs |-> fs,
                               geo |-> geo, reg |-> reg, rd |-> {}, err |-> "",
                               env |-> env], cell, inp)} :
             /\ ns' = [ns EXCEPT ![nb] = r.ns]
             /\ frames' = [frames EXCEPT ![nb] = r.frames]
             /\ fs' = r.fs
             /\ geo' = r.geo
             /\ reg' = r.reg
             /\ rd' = [rd EXCEPT ![nb] = r.rd]
             /\ halted' = [halted EXCEPT ![nb] = IF r.err = "" THEN @ ELSE r.err]
             /\ pc' = [pc EXCEPT ![nb] = @ + 1]
  /\ UNCHANGED env

\* the kernel of notebook nb runs its next cell; an uncaught error halts it
RunCell(nb) ==
  /\ nb \in env.active
  /\ halted[nb] = ""
  /\ pc[nb] <= Len(Cells(nb))
  /\ LET cell == Cells(nb)[pc[nb]]
     IN \E inp \in Inputs(cell, env.sample) :
          \E r \in {ExecCell([ns |-> ns[nb], frames |-> frames[nb], fs |-> fs,
                               geo |-> geo, reg |-> reg, rd |-> {}, err |-> "",
                               env |-> env], cell, inp)} :
             /\ ns' = [ns EXCEPT ![nb] = r.ns]
             /\ frames' = [frames EXCEPT ![nb] = r.frames]
             /\ fs' = r.fs
             /\ geo' = r.geo
             /\ reg' = r.reg
             /\ rd' = [rd EXCEPT ![nb] = r.rd]
             /\ halted' = [halted EXCEPT ![nb] = r.err]
             /\ pc' = [pc EXCEPT ![nb] = IF r.err = "" THEN @ + 1 ELSE @]
  /\ UNCHANGED env

Run04 == RunCell("module04")

Run06 == RunCell("module06")

Run10 == RunCell("module10")

(* ------------------------------- Init --------------------------------- *)
Env(active, sample, missing, singular, crs) ==
  [active |-> active, sample |-> sample, unreadable |-> missing,
   singular |-> singular, shp_crs |-> crs]

InitGeo ==
  [mask |-> <<>>, alaska_hawaii_mask |-> <<>>, poly |-> [p \in PolyVars |-> NoPoly],
   buffers |-> {}, out |-> NoFrame]

InitReg ==
  [tracts |-> <<>>, cols |-> {}, predictors |-> <<>>, county_dummies |-> <<>>,
   counties |-> <<>>, mask |-> <<>>, X |-> [cols |-> <<>>, dummies |-> <<>>, rows |-> <<>>],
   y |-> <<>>, Y |-> <<>>, regimes |-> <<>>, W |-> <<>>, fits |-> {},
   ols |-> [lm_lag |-> FALSE, lm_error |-> FALSE], shown |-> {}]

InitWith(e) ==
  /\ env = e
  /\ pc = [nb \in Notebooks |-> 1]
  /\ halted = [nb \in Notebooks |-> ""]
  /\ ns = [nb \in Notebooks |-> [v \in Vars |-> 0]]
  /\ frames = [nb \in Notebooks |-> [f \in FrameVarsOf(nb) |-> NoFrame]]
  /\ fs = [f \in Files |-> IF f \in InputFiles \ e.unreadable THEN Original ELSE Absent]
  /\ geo = InitGeo
  /\ reg = InitReg
  /\ rd = [nb \in Notebooks |-> {}]

\* all three notebooks, in any interleaving, on the sample dataset
Init == InitWith(Env(Notebooks, "fixed", {}, FALSE, shp_crs))

Next == Run04 \/ Run06 \/ Run10

Spec == Init /\ [][Next]_vars

\* one notebook at a time; a file may be missing, the shapefile may carry no
\* reference system, a design matrix may be singular
InitErr ==
  \E nb \in Notebooks, m \in {{}} \cup {{f} : f \in InputFiles},
     sing \in BOOLEAN, c \in {shp_crs, None} :
       InitWith(Env({nb}, "fixed", m, sing, c))

SpecErr == InitErr /\ [][Next]_vars

\* the geopandas notebook on every dataset within the bounds
InitData06 == InitWith(Env({"module06"}, "any", {}, FALSE, shp_crs))

SpecGeo == InitData06 /\ [][Run06]_vars

\* the regression notebook on every dataset within the bounds
InitData10 == InitWith(Env({"module10"}, "any", {}, FALSE, shp_crs))

SpecReg == InitData10 /\ [][Run10]_vars

\* the regression notebook on datasets of more counties
InitCounty == InitWith(Env({"module10"}, "counties", {}, FALSE, shp_crs))

SpecCounty == InitCounty /\ [][Run10]_vars


(* ------------------------------ helpers ------------------------------- *)
\* the position in notebook nb of the cell that holds a source line
CellAt(nb, line) ==
  CHOOSE i \in DOMAIN Cells(nb) : Cells(nb)[i].first <= line /\ line <= Cells(nb)[i].last

\* the cell holding the line has run to completion
After(nb, line) == pc[nb] > CellAt(nb, line)

\* the cell holding the line is the last one that ran to completion
JustAfter(nb, line) == pc[nb] = CellAt(nb, line) + 1

Finished(nb) == pc[nb] = Len(Cells(nb)) + 1

AllDone == \A nb \in Notebooks : Finished(nb)

\* for every notebook and name, the lines of the statements that bind it
Writers ==
  [nb \in Notebooks |->
     LET S == UNION {Range(Cells(nb)[i].stmts) : i \in DOMAIN Cells(nb)}
     IN [v \in Vars |-> {s.line : s \in {t \in S : v \in t.writes}}]]

geopandas == frames["module06"]

(* ------------------------------- claims ------------------------------- *)

\* to_crs statements of the cell that notebook module06 runs next
PendingToCrs ==
  IF "module06" \in env.active /\ halted["module06"] = "" /\ ~Finished("module06")
  THEN {s \in Range(Cells06[pc["module06"]].stmts) : s.op = "tocrs"}
  ELSE {}

\* C1: whenever a cell of the geopandas notebook calls to_crs, the frame it
\* is called on has a defined CRS (given that the shapefile carries one), and
\* a to_crs on a frame with an undefined CRS raises an error and leaves every
\* frame as it was: no reprojected frame comes out of it.
C1_ToCrsNeedsCrs ==
  [][\A s \in PendingToCrs :
       /\ env.shp_crs # None => geopandas[s.b].crs # None
       /\ geopandas[s.b].crs = None =>
            /\ halted'["module06"] = "ValueError: Cannot transform naive geometries"
            /\ frames' = frames
            /\ geo'.out = geo.out
       /\ (geopandas[s.b].crs # None /\ halted'["module06"] = "" /\ s.a # "") =>
            frames'["module06"][s.a].crs = CrsValue([frames |-> geopandas], s.c)]_vars

C1_Witness ==
  /\ After("module06", 809)
  /\ geopandas["california"].crs = utm_11
  /\ geopandas["cal_points"].crs = utm_11
  /\ geopandas["contiguous_states_proj"].crs = albers_usa
  /\ geopandas["rents"].crs = shp_crs

\* C2: once a cell of a notebook has raised an error, nothing of that
\* notebook's run changes any more: no later cell runs, the failed cell is
\* not run again, and no variable and no file is changed.
C2_ErrorHalts ==
  [][\A nb \in Notebooks :
       halted[nb] # "" =>
         /\ pc'[nb] = pc[nb]
         /\ halted'[nb] = halted[nb]
         /\ ns'[nb] = ns[nb]
         /\ frames'[nb] = frames[nb]
         /\ (env.active = {nb} => fs' = fs /\ geo' = geo /\ reg' = reg)]_vars

C2_Witness ==
  /\ halted["module10"] = "LinAlgError"
  /\ pc["module10"] = CellAt("module10", 722)
  /\ ns["module10"]["m"] = 0

\* the line of the last statement before `line` that binds v (0 if none)
LastBindBefore(nb, v, line) ==
  LET L == {l \in Writers[nb][v] : l < line}
  IN IF L = {} THEN 0 ELSE CHOOSE m \in L : \A k \in L : k <= m

\* every read in the cell that ran last saw the latest earlier binding
ReadsSeeLatestBinding ==
  /\ \A nb \in Notebooks : \A r \in rd[nb] :
        r.kind = "name" => r.ver = LastBindBefore(nb, r.var, r.line)
  /\ \A r \in rd["module06"] :
        /\ (r.kind = "name" /\ r.line = 271 /\ r.var = "mask") => r.ver = 258
        /\ (r.kind = "name" /\ r.line = 367 /\ r.var = "mask") => r.ver = 366
  /\ JustAfter("module06", 367) =>
        {geopandas["contiguous_states"].rows[i].name :
            i \in DOMAIN geopandas["contiguous_states"].rows}
          = {"California", "Massachusetts", "Texas"}

\* C3: a notebook advances one cell at a time, and every read of a name in
\* the cell that ran last saw the binding made by the most recent earlier
\* assignment in document order; states[~mask] at line 271 saw the mask of
\* line 258 and states[mask] at line 367 the mask of line 366, so that
\* contiguous_states holds every state but Alaska and Hawaii.
C3_Sequential ==
  /\ []ReadsSeeLatestBinding
  /\ [][\A nb \in Notebooks :
          /\ pc'[nb] \in {pc[nb], pc[nb] + 1}
          /\ pc'[nb] # pc[nb] => \A o \in Notebooks \ {nb} : pc'[o] = pc[o]]_vars

C3_Witness ==
  /\ [line |-> 367, kind |-> "name", var |-> "mask", ver |-> 366] \in rd["module06"]
  /\ After("module04", 545)
  /\ After("module10", 910)

\* C4: no input file is ever written, each output file is written at most
\* once, and when all notebooks have run the only files written are
\* 'states2' (by to_file, line 209) and 'map.png' (by savefig, line 759).
C4_OnlyTwoFilesWritten ==
  /\ \A f \in InputFiles : fs[f] = Original
  /\ \A f \in OutputFiles : fs[f] = Absent \/ fs[f].writes = 1
  /\ After("module06", 209) => fs["states2"] = [ver |-> 209, writes |-> 1]
  /\ After("module06", 759) => fs["map.png"] = [ver |-> 759, writes |-> 1]
  /\ AllDone => {f \in Files : fs[f].writes > 0} = {"states2", "map.png"}

C4_Witness ==
  /\ AllDone
  /\ fs["states2"].writes = 1
  /\ fs["map.png"].writes = 1

\* a notebook run on its own, from its first cell to its last
RunAlone(nb, files) ==
  LET F[i \in 0..Len(Cells(nb))] ==
        IF i = 0
        THEN [ns |-> [v \in Vars |-> 0], frames |-> [f \in FrameVarsOf(nb) |-> NoFrame],
              fs |-> files, geo |-> InitGeo, reg |-> InitReg, rd |-> {}, err |-> "",
              env |-> Env({nb}, "fixed", {}, FALSE, shp_crs)]
        ELSE ExecCell([F[i - 1] EXCEPT !.rd = {}], Cells(nb)[i],
                      CHOOSE inp \in Inputs(Cells(nb)[i], "fixed") : TRUE)
  IN F[Len(Cells(nb))]

Alone == [nb \in Notebooks |-> RunAlone(nb, [f \in Files |-> IF f \in InputFiles THEN Original ELSE Absent])]

\* C5: every file a notebook reads holds its original content when it is
\* read, whatever the other notebooks have done by then, and when all three
\* notebooks have finished, in whatever interleaving, each one's namespace,
\* frames and data and the files written are those of that notebook run on
\* its own.
C5_NotebooksIndependent ==
  /\ \A nb \in Notebooks : \A r \in rd[nb] : r.kind = "file" => r.ver = 0
  /\ AllDone =>
        /\ \A nb \in Notebooks : ns[nb] = Alone[nb].ns /\ frames[nb] = Alone[nb].frames
        /\ geo = Alone["module06"].geo
        /\ reg = Alone["module10"].reg
        /\ fs = Alone["module06"].fs

C5_Witness ==
  /\ AllDone
  /\ ns["module04"]["mask"] = 545
  /\ ns["module06"]["mask"] = 366
  /\ ns["module10"]["mask"] = 910

rents_states == geopandas["rents_states"]

rents == geopandas["rents"]

\* the number of state polygons of contiguous_states a listing lies within
NMatches(row) ==
  Cardinality({i \in DOMAIN geopandas["contiguous_states"].rows :
                 within(row.geom, geopandas["contiguous_states"].rows[i].geom)})

\* C6 (as stated): the join has at most as many rows as rents.
C6_JoinAtMostLeft ==
  After("module06", 818) => Len(rents_states.rows) <= Len(rents.rows)

\* C6 (amended): the left join has at least as many rows as rents, every
\* listing appearing once per state polygon it lies within and once if it
\* lies within none; the counts are equal when no listing lies within more
\* than one polygon.
C6_JoinAtLeastLeft ==
  After("module06", 818) =>
    /\ Len(rents_states.rows) >= Len(rents.rows)
    /\ \A i \in DOMAIN rents.rows :
          Cardinality({k \in DOMAIN rents_states.rows :
                         rents_states.rows[k].label = rents.rows[i].label})
            = IF NMatches(rents.rows[i]) = 0 THEN 1 ELSE NMatches(rents.rows[i])
    /\ (\A i \in DOMAIN rents.rows : NMatches(rents.rows[i]) <= 1) =>
          Len(rents_states.rows) = Len(rents.rows)

C6_Witness ==
  /\ After("module06", 818)
  /\ Len(rents.rows) = 2
  /\ NMatches(rents.rows[1]) = 2
  /\ NMatches(rents.rows[2]) = 0
  /\ Len(rents_states.rows) = 3

\* C7: in the regression notebook, after every design-matrix cell the
\* response (y, or Y from the regimes cell on) has the row labels of X in
\* the same order, each label names one tract, the response values are
\* those of these tracts, and X has no null in any of its columns.
C7_DesignRowsAligned ==
  /\ \A i \in DOMAIN reg.X.rows : reg.X.rows[i].nulls = {}
  /\ \A i, j \in DOMAIN reg.X.rows : i # j => reg.X.rows[i].label # reg.X.rows[j].label
  /\ (After("module10", 712) /\ ~After("module10", 921)) =>
        Index(reg.y) = Index(reg.X.rows)
  /\ After("module10", 921) => Index(reg.Y) = Index(reg.X.rows)
  /\ \A r \in Range(reg.y) \cup Range(reg.Y) : \E t \in Range(reg.tracts) :
        t.label = r.label /\ t.response = r.response

C7_Witness ==
  /\ JustAfter("module10", 759)
  /\ Len(reg.X.rows) = 2
  /\ Len(reg.tracts) = 3
  /\ reg.tracts[2].nulls = {"pct_white"}
  /\ Index(reg.y) = <<0, 2>>

usa_points == geopandas["usa_points"]

\* C8: the cell usa_points.to_crs(albers_usa).head() leaves usa_points as it
\* was, rows, coordinates and CRS (original_crs); the projected frame is
\* only the value the call returns.
C8_ToCrsReturnsNewFrame ==
  [][(pc["module06"] = CellAt("module06", 671) /\ JustAfter("module06", 671)') =>
       /\ usa_points' = usa_points
       /\ usa_points'.crs = original_crs
       /\ usa_points'.coords = original_crs
       /\ geo'.out.crs = albers_usa
       /\ geo'.out.coords = albers_usa
       /\ geo'.out.rows = usa_points.rows]_vars

C8_Witness ==
  /\ JustAfter("module06", 671)
  /\ usa_points.crs = original_crs
  /\ usa_points.rows # <<>>
  /\ geo.out.crs = albers_usa

\* C9: the buffers drawn at line 585 around the projected California points
\* have a radius of 20,000, in metres.
C9_BufferRadius20km ==
  After("module06", 585) =>
    \A b \in geo.buffers :
       b.line = 585 => b.distance = <<20000, 1>> /\ b.units = "m" /\ b.crs = utm_11

\* C10: the 'area' column of contiguous_states_proj is the projected area
\* in square metres divided by 10^6, that is, in square kilometres.
C10_AreaInSqKm ==
  After("module06", 717) =>
    LET f == geopandas["contiguous_states_proj"]
    IN /\ f.coords.units = "m"
       /\ \A i \in DOMAIN f.rows : f.area[i] = Ratio(Area(f.rows[i].geom, f.coords), 10^6)

tracts == reg.tracts

\* the lines of the estimator calls that have run
FitLines == {f.line : f \in reg.fits}

\* C11: from the cell tracts = tracts.dropna(subset=[response]) on, no row of
\* tracts has a null response, after every later cell; no y or Y handed to
\* an estimator (OLS, regimes, Moran, ML_Lag, ML_Error, GM_Combo_Het) holds
\* a null.
C11_NoNullResponse ==
  /\ After("module10", 665) =>
        /\ \A i \in DOMAIN tracts : tracts[i].response
        /\ \A r \in Range(reg.y) \cup Range(reg.Y) : r.response
  /\ \A f \in reg.fits : \A i \in DOMAIN f.y : f.y[i].response

C11_Witness ==
  /\ Finished("module10")
  /\ Index(tracts) = <<0, 2>>
  /\ {722, 735, 889, 932, 977, 987, 1098, 1139, 1181} \subseteq FitLines

\* the sum of the columns cols of a row of dummies
RowSum(d, cols) ==
  LET F[i \in 0..Len(cols)] == IF i = 0 THEN 0 ELSE F[i - 1] + d[cols[i]]
  IN F[Len(cols)]

X == reg.X

county_dummies == reg.county_dummies

\* the county of the tract with an index label
CountyOf(label) == (CHOOSE t \in Range(tracts) : t.label = label).COUNTYFP

\* the fixed-effects design matrix of lines 873-877 is the current X
FixedEffectsX == After("module10", 877) /\ ~After("module10", 920)

\* county_dummies names every dummy column but the first county's, each an
\* existing column; on X a tract of the dropped county has all retained
\* dummies 0 and every other tract exactly one, its own, equal to 1
RetainedDummies ==
  /\ After("module10", 864) =>
        /\ tracts # <<>> => county_dummies = Tail(Unique(tracts))
        /\ Range(county_dummies) \subseteq reg.cols
        /\ \A t \in Range(tracts) : Range(county_dummies) \subseteq DOMAIN t.dummies
  /\ FixedEffectsX =>
        \A r \in Range(X.rows) :
           /\ DOMAIN r.dummies = Range(county_dummies)
           /\ \A c \in DOMAIN r.dummies :
                 r.dummies[c] = IF c = CountyOf(r.label) THEN 1 ELSE 0
           /\ RowSum(r.dummies, county_dummies)
                 = IF CountyOf(r.label) = Unique(tracts)[1] THEN 0 ELSE 1

\* C13: county_dummies names every dummy column but the first county's,
\* tracts of the dropped county have all retained dummies 0 and the others
\* exactly one 1, and on the design matrix the retained dummies do not sum
\* to 1 on every row.
C13_RetainedNeverSumToOne ==
  /\ RetainedDummies
  /\ FixedEffectsX => \E r \in Range(X.rows) : RowSum(r.dummies, county_dummies) # 1

W == reg.W

\* C14: the spatial weights W have the observations of X.index, in that
\* order, and every estimator that takes W (OLS, Moran, ML_Lag, ML_Error,
\* GM_Combo_Het) is handed W, X.values and Y.values of the same
\* observations in the same order.
C14_WeightsFollowDesign ==
  /\ After("module10", 966) => W = Index(X.rows)
  /\ \A f \in reg.fits :
        f.line > 970 =>
          /\ f.w = W
          /\ Index(f.y) = f.w
          /\ f.line # 987 => f.x = f.w

C14_Witness ==
  /\ Finished("module10")
  /\ Len(tracts) = 3
  /\ W = <<0, 2>>
  /\ {977, 987, 1098, 1139, 1181} \subseteq FitLines

counties == reg.counties

regimes == reg.regimes

\* the number of tracts of a county
NTracts(c) == Cardinality({i \in DOMAIN tracts : tracts[i].COUNTYFP = c})

\* the design matrix of the regimes cell (lines 919-922) is the current X
RegimesX == After("module10", 922) /\ ~After("module10", 955)

ols == reg.ols

\* C16: the robust LM tests (ols.rlm_lag, ols.rlm_error) are consulted if
\* and only if both LM tests (ols.lm_lag, ols.lm_error) were significant;
\* with at most one significant LM test they are never evaluated.
C16_RobustIffBothSignificant ==
  /\ reg.shown \cap {"rlm_lag", "rlm_error"} # {} => (ols.lm_lag /\ ols.lm_error)
  /\ (Finished("module10") /\ ols.lm_lag /\ ols.lm_error) =>
        {"rlm_lag", "rlm_error"} \subseteq reg.shown

\* the cell holding the line has been reached: every cell before it has run
Reached(nb, line) == pc[nb] >= CellAt(nb, line)

=============================================================================
